---- MODULE Spec2Model ----
(***************************************************************************)
(* OxidArt: a path-compressed adaptive radix tree stored in two slabs     *)
(* (node arena `map`, overflow child-table arena `child_list`).            *)
(*                                                                         *)
(* Every method of OxidArt is an operator from a tree record               *)
(*   [map, child_list, root_idx, panic]                                    *)
(* to the tree (and the return value) the method leaves behind; the        *)
(* actions apply the public methods to the state variables.                *)
(***************************************************************************)
EXTENDS Integers, Sequences, FiniteSets, TLC

VARIABLES
    map,         \* OxidArt.map: the node arena
    child_list,  \* OxidArt.child_list: the overflow child-table arena
    root_idx,    \* OxidArt.root_idx
    panic,       \* TRUE once a call has panicked (expect / assert / slab key)
    last,        \* the last public call: operation, arguments, returned value
    stored,      \* the key-value map the calls made so far describe
    nops,        \* number of public calls made (counted in the bounded runs)
    rt           \* the monoio runtime around the shared tree (ticker run)

vars == <<map, child_list, root_idx, panic, last, stored, nops, rt>>

(***************************************************************************)
(* Bounds of the model.                                                    *)
(***************************************************************************)
MaxKeyLen == 3
MaxOps == 3

(***************************************************************************)
(* Program constants.                                                      *)
(***************************************************************************)
CHILDS_SIZE == 10
ASCII_MAX_CHAR == 127
HUGE_CHILDS_SIZE == ASCII_MAX_CHAR - CHILDS_SIZE
(* u32::MAX, the "no overflow region" mark of maybe_next_childs_idx; it is
   only ever compared for equality, and no slab key reaches it. *)
U32_MAX == -1

(* Key bytes: the engine only compares them for equality; b'a' and b'b'. *)
FirstRadix == 97
Radixes == {FirstRadix, FirstRadix + 1}
(* Values: opaque to the engine, which stores, moves and returns them. *)
Vals == {1, 2}
(* The keys and prefixes the operations are called with: a run of the first
   letter followed by at most one other letter ("", a, b, aa, ab, aaa, aab,
   ...), which contains keys that are prefixes and extensions of each other,
   siblings under the root and under inner nodes, and pairs that diverge
   inside a compression. *)
Keys ==
    {k \in UNION {[1 .. n -> Radixes] : n \in 0 .. MaxKeyLen} :
        \A i \in 1 .. (Len(k) - 1) : k[i] = FirstRadix}

(***************************************************************************)
(* Option<T>: None is the empty sequence, Some(x) the one-element one.     *)
(***************************************************************************)
None == <<>>
Some(x) == <<x>>
IsSome(o) == o # <<>>
Unwrap(o) == o[1]

(* s[from..] with a 0-based start, as a Rust slice. *)
SliceFrom(s, from) == SubSeq(s, from + 1, Len(s))
(* s[..to] with a 0-based exclusive end. *)
SliceTo(s, to) == SubSeq(s, 1, to)
(* s[i] with a 0-based index. *)
At(s, i) == s[i + 1]
Min(a, b) == IF a < b THEN a ELSE b
(* Vec::swap_remove at 0-based position pos: the last element takes its place. *)
SwapRemove(s, pos) ==
    LET n == Len(s) IN
    [i \in 1 .. (n - 1) |-> IF i = pos + 1 THEN s[n] ELSE s[i]]
(* Iterator::position: 0-based index of the first element equal to x, or None. *)
Position(s, x) ==
    IF \E i \in 1 .. Len(s) : s[i] = x
    THEN Some((CHOOSE i \in 1 .. Len(s) : s[i] = x /\ \A j \in 1 .. (i - 1) : s[j] # x) - 1)
    ELSE None

(***************************************************************************)
(* Slab<T>: a vector of entries with holes and a LIFO chain of vacant      *)
(* keys; insert reuses the most recently vacated key, else appends.        *)
(***************************************************************************)
EmptySlab == [entries |-> <<>>, free |-> <<>>]
SlabGet(s, key) == IF key < Len(s.entries) THEN s.entries[key + 1] ELSE None
SlabContains(s, key) == IsSome(SlabGet(s, key))
SlabVacantKey(s) == IF s.free = <<>> THEN Len(s.entries) ELSE Head(s.free)
SlabInsert(s, x) ==
    IF s.free = <<>>
    THEN [entries |-> Append(s.entries, Some(x)), free |-> <<>>]
    ELSE [entries |-> [s.entries EXCEPT ![Head(s.free) + 1] = Some(x)], free |-> Tail(s.free)]
SlabRemove(s, key) ==
    [entries |-> [s.entries EXCEPT ![key + 1] = None], free |-> <<key>> \o s.free]
SlabSet(s, key, x) == [s EXCEPT !.entries[key + 1] = Some(x)]
SlabKeys(s) == {k \in 0 .. (Len(s.entries) - 1) : IsSome(s.entries[k + 1])}

(***************************************************************************)
(* Childs (primary region) and HugeChilds (overflow region).               *)
(***************************************************************************)
DefaultChilds == [idxs |-> <<>>, radixs |-> <<>>, maybe_next_childs_idx |-> U32_MAX]

(* Childs::find that compares the first entry only. *)
Childs_find_first_only(c, radix) ==
    IF c.radixs # <<>> /\ c.radixs[1] = radix THEN Some(c.idxs[1]) ELSE None

Childs_find(c, radix) ==
    LET p == Position(c.radixs, radix) IN
    IF IsSome(p) THEN Some(At(c.idxs, Unwrap(p))) ELSE None

Childs_is_full(c) == Len(c.idxs) = CHILDS_SIZE

Childs_push(c, radix, idx) ==
    [c EXCEPT !.idxs = Append(@, idx), !.radixs = Append(@, radix)]

(* Childs::remove returns the table without the entry; Childs_find tells
   whether there was one. *)
Childs_remove(c, radix) ==
    LET p == Position(c.radixs, radix) IN
    IF IsSome(p)
    THEN [c EXCEPT !.radixs = SwapRemove(@, Unwrap(p)), !.idxs = SwapRemove(@, Unwrap(p))]
    ELSE c

Childs_is_empty(c) == c.idxs = <<>>

Childs_iter(c) == [i \in 1 .. Len(c.radixs) |-> <<c.radixs[i], c.idxs[i]>>]

get_next_idx(c) ==
    IF c.maybe_next_childs_idx = U32_MAX THEN None ELSE Some(c.maybe_next_childs_idx)

(* get_single_child that never reports a single child. *)
get_single_child_never(c) == None

get_single_child(c) ==
    IF Len(c.idxs) = 1 /\ c.maybe_next_childs_idx = U32_MAX
    THEN Some(<<c.radixs[1], c.idxs[1]>>)
    ELSE None

(* HugeChilds: a sequence of <<radix, idx>> entries. *)
HugeChilds_new(radix, idx) == <<<<radix, idx>>>>

HugeChilds_find(h, radix) ==
    IF \E i \in 1 .. Len(h) : h[i][1] = radix
    THEN Some(h[CHOOSE i \in 1 .. Len(h) : h[i][1] = radix /\ \A j \in 1 .. (i - 1) : h[j][1] # radix][2])
    ELSE None

HugeChilds_push(h, radix, idx) == Append(h, <<radix, idx>>)

HugeChilds_remove(h, radix) ==
    IF \E i \in 1 .. Len(h) : h[i][1] = radix
    THEN SwapRemove(h, (CHOOSE i \in 1 .. Len(h) : h[i][1] = radix /\ \A j \in 1 .. (i - 1) : h[j][1] # radix) - 1)
    ELSE h

(***************************************************************************)
(* Node and the comparison of a compression against the rest of a key.     *)
(***************************************************************************)
DefaultNode == [compression |-> <<>>, val |-> None, childs |-> DefaultChilds]

new_leaf(compression, val) ==
    [compression |-> compression, val |-> Some(val), childs |-> DefaultChilds]

RECURSIVE CommonFrom(_, _, _, _)
CommonFrom(compression, key_rest, i, len) ==
    IF i >= len THEN len
    ELSE IF compression[i + 1] # key_rest[i + 1] THEN i
    ELSE CommonFrom(compression, key_rest, i + 1, len)

get_common_len(compression, key_rest) ==
    CommonFrom(compression, key_rest, 0, Min(Len(compression), Len(key_rest)))

Path == [tag |-> "Path", n |-> 0]
Final == [tag |-> "Final", n |-> 0]
Partial(n) == [tag |-> "Partial", n |-> n]

(* compare_compression_key that takes a compression shorter than the key
   tail for a prefix of it without comparing the bytes. *)
compare_compression_key_by_length(compression, key_rest) ==
    LET common_len == get_common_len(compression, key_rest) IN
    IF Len(compression) = Len(key_rest)
    THEN IF common_len = Len(key_rest) THEN Final ELSE Partial(common_len)
    ELSE IF Len(compression) > Len(key_rest)
    THEN Partial(common_len)
    ELSE Path

compare_compression_key(compression, key_rest) ==
    LET common_len == get_common_len(compression, key_rest) IN
    IF Len(compression) = Len(key_rest)
    THEN IF common_len = Len(key_rest) THEN Final ELSE Partial(common_len)
    ELSE IF Len(compression) > Len(key_rest)
    THEN Partial(common_len)
    ELSE IF common_len = Len(compression) THEN Path ELSE Partial(common_len)

(***************************************************************************)
(* OxidArt: construction and private helpers.                              *)
(***************************************************************************)
new ==
    [map |-> SlabInsert(EmptySlab, DefaultNode),
     child_list |-> EmptySlab,
     root_idx |-> 0,
     panic |-> FALSE]

Panicked(t) == [t EXCEPT !.panic = TRUE]

(* The index OxidArt::insert returns, and the tree it leaves. *)
insert_idx(t) == SlabVacantKey(t.map)
insert(t, node) == [t EXCEPT !.map = SlabInsert(@, node)]

try_get_node(t, idx) == SlabGet(t.map, idx)
(* get_node / get_node_mut: callers check HasNode and panic otherwise. *)
HasNode(t, idx) == SlabContains(t.map, idx)
get_node(t, idx) == Unwrap(SlabGet(t.map, idx))
put_node(t, idx, node) == [t EXCEPT !.map = SlabSet(@, idx, node)]

(* find that searches the primary region only. *)
find_primary_only(t, idx, radix) ==
    LET n == try_get_node(t, idx) IN
    IF ~IsSome(n) THEN None
    ELSE Childs_find(Unwrap(n).childs, radix)

find(t, idx, radix) ==
    LET n == try_get_node(t, idx) IN
    IF ~IsSome(n) THEN None
    ELSE LET child == Unwrap(n).childs
             hit == Childs_find(child, radix) IN
         IF IsSome(hit) THEN hit
         ELSE IF ~IsSome(get_next_idx(child)) THEN None
         ELSE LET h == SlabGet(t.child_list, Unwrap(get_next_idx(child))) IN
              IF ~IsSome(h) THEN None ELSE HugeChilds_find(Unwrap(h), radix)

intiate_new_huge_child_idx(t) == SlabVacantKey(t.child_list)
intiate_new_huge_child(t, radix, idx) ==
    [t EXCEPT !.child_list = SlabInsert(@, HugeChilds_new(radix, idx))]

(***************************************************************************)
(* get                                                                     *)
(***************************************************************************)
RECURSIVE get_loop(_, _, _, _)
get_loop(t, key, idx, cursor) ==
    LET f == find(t, idx, At(key, cursor)) IN
    IF ~IsSome(f) THEN None
    ELSE LET n == try_get_node(t, Unwrap(f)) IN
         IF ~IsSome(n) THEN None
         ELSE LET node == Unwrap(n)
                  c == compare_compression_key(node.compression, SliceFrom(key, cursor + 1)) IN
              IF c.tag = "Final" THEN node.val
              ELSE IF c.tag = "Partial" THEN None
              ELSE get_loop(t, key, Unwrap(f), cursor + 1 + Len(node.compression))

get(t, key) ==
    IF Len(key) = 0
    THEN LET n == try_get_node(t, t.root_idx) IN
         IF IsSome(n) THEN Unwrap(n).val ELSE None
    ELSE get_loop(t, key, t.root_idx, 0)

(***************************************************************************)
(* set                                                                     *)
(***************************************************************************)
(* create_node_with_val that starts a new overflow region whenever the
   primary region is full, also when one is already linked. *)
create_node_with_val_new_region(t, idx, radix, val, compression) ==
    IF ~HasNode(t, idx) THEN Panicked(t)
    ELSE
    LET father_node == get_node(t, idx)
        is_full == Childs_is_full(father_node.childs)
        inserted_idx == insert_idx(t)
        t1 == insert(t, new_leaf(compression, val)) IN
    IF ~is_full
    THEN put_node(t1, idx, [father_node EXCEPT !.childs = Childs_push(@, radix, inserted_idx)])
    ELSE LET new_child_idx == intiate_new_huge_child_idx(t1)
             t2 == intiate_new_huge_child(t1, radix, inserted_idx) IN
         put_node(t2, idx, [father_node EXCEPT !.childs.maybe_next_childs_idx = new_child_idx])

create_node_with_val(t, idx, radix, val, compression) ==
    IF ~HasNode(t, idx) THEN Panicked(t)
    ELSE
    LET father_node == get_node(t, idx)
        is_full == Childs_is_full(father_node.childs)
        huge_child_idx == get_next_idx(father_node.childs)
        inserted_idx == insert_idx(t)
        t1 == insert(t, new_leaf(compression, val)) IN
    IF ~is_full
    THEN put_node(t1, idx, [father_node EXCEPT !.childs = Childs_push(@, radix, inserted_idx)])
    ELSE IF ~IsSome(huge_child_idx)
    THEN LET new_child_idx == intiate_new_huge_child_idx(t1)
             t2 == intiate_new_huge_child(t1, radix, inserted_idx) IN
         put_node(t2, idx, [father_node EXCEPT !.childs.maybe_next_childs_idx = new_child_idx])
    ELSE LET huge_idx == Unwrap(huge_child_idx) IN
         IF ~SlabContains(t1.child_list, huge_idx) THEN Panicked(t1)
         ELSE IF Len(Unwrap(SlabGet(t1.child_list, huge_idx))) >= HUGE_CHILDS_SIZE THEN Panicked(t1)
         ELSE [t1 EXCEPT !.child_list =
                  SlabSet(@, huge_idx, HugeChilds_push(Unwrap(SlabGet(t1.child_list, huge_idx)), radix, inserted_idx))]

(* split with the old-content node keeping the radix byte in its compression
   (old_compression[common_len..] instead of [common_len + 1..]). *)
split_keeps_radix(t, idx, val, key_rest, common_len) ==
    LET node == get_node(t, idx)
        val_on_intermediate == common_len = Len(key_rest)
        old_compression == node.compression
        old_radix == At(old_compression, common_len)
        old_child == [compression |-> SliceFrom(old_compression, common_len),
                      val |-> node.val,
                      childs |-> node.childs]
        old_child_idx == insert_idx(t)
        t1 == insert(t, old_child)
        inter == [compression |-> SliceTo(old_compression, common_len),
                  val |-> IF val_on_intermediate THEN Some(val) ELSE None,
                  childs |-> Childs_push(DefaultChilds, old_radix, old_child_idx)]
        t2 == put_node(t1, idx, inter) IN
    IF val_on_intermediate THEN t2
    ELSE create_node_with_val(t2, idx, At(key_rest, common_len), val,
                              SliceFrom(key_rest, common_len + 1))

(* split whose old-content node starts with an empty child table. *)
split_drops_childs(t, idx, val, key_rest, common_len) ==
    LET node == get_node(t, idx)
        val_on_intermediate == common_len = Len(key_rest)
        old_compression == node.compression
        old_radix == At(old_compression, common_len)
        old_child == [compression |-> SliceFrom(old_compression, common_len + 1),
                      val |-> node.val,
                      childs |-> DefaultChilds]
        old_child_idx == insert_idx(t)
        t1 == insert(t, old_child)
        inter == [compression |-> SliceTo(old_compression, common_len),
                  val |-> IF val_on_intermediate THEN Some(val) ELSE None,
                  childs |-> Childs_push(DefaultChilds, old_radix, old_child_idx)]
        t2 == put_node(t1, idx, inter) IN
    IF val_on_intermediate THEN t2
    ELSE create_node_with_val(t2, idx, At(key_rest, common_len), val,
                              SliceFrom(key_rest, common_len + 1))

(* The split of node idx whose compression matches key_rest only up to
   common_len. *)
split(t, idx, val, key_rest, common_len) ==
    LET node == get_node(t, idx)
        val_on_intermediate == common_len = Len(key_rest)
        old_compression == node.compression
        old_radix == At(old_compression, common_len)
        old_child == [compression |-> SliceFrom(old_compression, common_len + 1),
                      val |-> node.val,
                      childs |-> node.childs]
        old_child_idx == insert_idx(t)
        t1 == insert(t, old_child)
        inter == [compression |-> SliceTo(old_compression, common_len),
                  val |-> IF val_on_intermediate THEN Some(val) ELSE None,
                  childs |-> Childs_push(DefaultChilds, old_radix, old_child_idx)]
        t2 == put_node(t1, idx, inter) IN
    IF val_on_intermediate THEN t2
    ELSE create_node_with_val(t2, idx, At(key_rest, common_len), val,
                              SliceFrom(key_rest, common_len + 1))

(* set_loop that, on a stored key, replaces the whole node by a fresh leaf
   holding the new value. *)
RECURSIVE set_loop_fresh_leaf(_, _, _, _, _)
set_loop_fresh_leaf(t, key, val, idx, cursor) ==
    LET f == find(t, idx, At(key, cursor)) IN
    IF ~IsSome(f)
    THEN create_node_with_val(t, idx, At(key, cursor), val, SliceFrom(key, cursor + 1))
    ELSE LET child_idx == Unwrap(f) IN
         IF ~HasNode(t, child_idx) THEN Panicked(t)
         ELSE LET node == get_node(t, child_idx)
                  c == compare_compression_key(node.compression, SliceFrom(key, cursor + 1)) IN
              IF c.tag = "Final" THEN put_node(t, child_idx, new_leaf(node.compression, val))
              ELSE IF c.tag = "Path"
              THEN set_loop_fresh_leaf(t, key, val, child_idx, cursor + 1 + Len(node.compression))
              ELSE split(t, child_idx, val, SliceFrom(key, cursor + 1), c.n)

RECURSIVE set_loop(_, _, _, _, _)
set_loop(t, key, val, idx, cursor) ==
    LET f == find(t, idx, At(key, cursor)) IN
    IF ~IsSome(f)
    THEN create_node_with_val(t, idx, At(key, cursor), val, SliceFrom(key, cursor + 1))
    ELSE LET child_idx == Unwrap(f) IN
         IF ~HasNode(t, child_idx) THEN Panicked(t)
         ELSE LET node == get_node(t, child_idx)
                  c == compare_compression_key(node.compression, SliceFrom(key, cursor + 1)) IN
              IF c.tag = "Final" THEN put_node(t, child_idx, [node EXCEPT !.val = Some(val)])
              ELSE IF c.tag = "Path"
              THEN set_loop(t, key, val, child_idx, cursor + 1 + Len(node.compression))
              ELSE split(t, child_idx, val, SliceFrom(key, cursor + 1), c.n)

set(t, key, val) ==
    IF Len(key) = 0
    THEN IF ~HasNode(t, t.root_idx) THEN Panicked(t)
         ELSE put_node(t, t.root_idx, [get_node(t, t.root_idx) EXCEPT !.val = Some(val)])
    ELSE set_loop(t, key, val, t.root_idx, 0)

(***************************************************************************)
(* Recompression and child removal.                                        *)
(***************************************************************************)
(* try_recompress that never merges a node with its child. *)
try_recompress_never(t, node_idx) == t

(* try_recompress that leaves the absorbed child in the arena. *)
try_recompress_keeps_child(t, node_idx) ==
    IF ~HasNode(t, node_idx) THEN Panicked(t)
    ELSE
    LET node == get_node(t, node_idx)
        single == get_single_child(node.childs) IN
    IF IsSome(node.val) THEN t
    ELSE IF ~IsSome(single) THEN t
    ELSE LET child_radix == Unwrap(single)[1]
             child_idx == Unwrap(single)[2] IN
         IF ~HasNode(t, child_idx) THEN Panicked(t)
         ELSE LET child == get_node(t, child_idx) IN
              put_node(t, node_idx,
                       [compression |-> node.compression \o <<child_radix>> \o child.compression,
                        val |-> child.val,
                        childs |-> child.childs])

(* try_recompress that takes over the primary region of the absorbed child
   and forgets its overflow link. *)
try_recompress_drops_link(t, node_idx) ==
    IF ~HasNode(t, node_idx) THEN Panicked(t)
    ELSE
    LET node == get_node(t, node_idx)
        single == get_single_child(node.childs) IN
    IF IsSome(node.val) THEN t
    ELSE IF ~IsSome(single) THEN t
    ELSE LET child_radix == Unwrap(single)[1]
             child_idx == Unwrap(single)[2] IN
         IF ~HasNode(t, child_idx) THEN Panicked(t)
         ELSE LET child == get_node(t, child_idx)
                  t1 == [t EXCEPT !.map = SlabRemove(@, child_idx)] IN
              put_node(t1, node_idx,
                       [compression |-> node.compression \o <<child_radix>> \o child.compression,
                        val |-> child.val,
                        childs |-> [child.childs EXCEPT !.maybe_next_childs_idx = U32_MAX]])

(* try_recompress that joins the two compressions without the radix between
   them. *)
try_recompress_skips_radix(t, node_idx) ==
    IF ~HasNode(t, node_idx) THEN Panicked(t)
    ELSE
    LET node == get_node(t, node_idx)
        single == get_single_child(node.childs) IN
    IF IsSome(node.val) THEN t
    ELSE IF ~IsSome(single) THEN t
    ELSE LET child_idx == Unwrap(single)[2] IN
         IF ~HasNode(t, child_idx) THEN Panicked(t)
         ELSE LET child == get_node(t, child_idx)
                  t1 == [t EXCEPT !.map = SlabRemove(@, child_idx)] IN
              put_node(t1, node_idx,
                       [compression |-> node.compression \o child.compression,
                        val |-> child.val,
                        childs |-> child.childs])

try_recompress(t, node_idx) ==
    IF ~HasNode(t, node_idx) THEN Panicked(t)
    ELSE
    LET node == get_node(t, node_idx)
        single == get_single_child(node.childs) IN
    IF IsSome(node.val) THEN t
    ELSE IF ~IsSome(single) THEN t
    ELSE LET child_radix == Unwrap(single)[1]
             child_idx == Unwrap(single)[2] IN
         IF ~HasNode(t, child_idx) THEN Panicked(t)
         ELSE LET child == get_node(t, child_idx)
                  t1 == [t EXCEPT !.map = SlabRemove(@, child_idx)] IN
              put_node(t1, node_idx,
                       [compression |-> node.compression \o <<child_radix>> \o child.compression,
                        val |-> child.val,
                        childs |-> child.childs])

(* remove_child that leaves the parent's entry in place. *)
remove_child_keeps_entry(t, parent_idx, radix) == t

(* remove_child that searches the primary region only. *)
remove_child_primary_only(t, parent_idx, radix) ==
    IF ~HasNode(t, parent_idx) THEN Panicked(t)
    ELSE
    LET parent == get_node(t, parent_idx) IN
    IF IsSome(Childs_find(parent.childs, radix))
    THEN put_node(t, parent_idx, [parent EXCEPT !.childs = Childs_remove(@, radix)])
    ELSE t

remove_child(t, parent_idx, radix) ==
    IF ~HasNode(t, parent_idx) THEN Panicked(t)
    ELSE
    LET parent == get_node(t, parent_idx) IN
    IF IsSome(Childs_find(parent.childs, radix))
    THEN put_node(t, parent_idx, [parent EXCEPT !.childs = Childs_remove(@, radix)])
    ELSE IF ~IsSome(get_next_idx(parent.childs)) THEN t
    ELSE LET huge_idx == Unwrap(get_next_idx(parent.childs)) IN
         IF ~SlabContains(t.child_list, huge_idx) THEN Panicked(t)
         ELSE [t EXCEPT !.child_list =
                  SlabSet(@, huge_idx, HugeChilds_remove(Unwrap(SlabGet(t.child_list, huge_idx)), radix))]

(***************************************************************************)
(* del: operators return [t |-> tree afterwards, ret |-> returned value].  *)
(***************************************************************************)
Ret(t, r) == [t |-> t, ret |-> r]

(* The descent of del from node idx, reached from parent_idx under
   parent_radix with cursor bytes of the key consumed: the target with its
   immediate parent, or None. *)
RECURSIVE del_loop(_, _, _, _, _, _)
del_loop(t, key, parent_idx, parent_radix, idx, cursor) ==
    LET n == try_get_node(t, idx) IN
    IF ~IsSome(n) THEN None
    ELSE LET node == Unwrap(n)
             c == compare_compression_key(node.compression, SliceFrom(key, cursor)) IN
         IF c.tag = "Final"
         THEN Some([target_idx |-> idx, parent_idx |-> parent_idx, parent_radix |-> parent_radix])
         ELSE IF c.tag = "Partial" THEN None
         ELSE LET cursor2 == cursor + Len(node.compression)
                  f == find(t, idx, At(key, cursor2)) IN
              IF ~IsSome(f) THEN None
              ELSE del_loop(t, key, idx, At(key, cursor2), Unwrap(f), cursor2 + 1)

(* del that takes the value of a leaf and leaves the leaf in place. *)
del_keeps_leaf(t, key) ==
    IF Len(key) = 0
    THEN IF ~HasNode(t, t.root_idx) THEN Ret(Panicked(t), None)
         ELSE LET root == get_node(t, t.root_idx)
                  old_val == root.val
                  t1 == put_node(t, t.root_idx, [root EXCEPT !.val = None]) IN
              Ret(try_recompress(t1, t.root_idx), old_val)
    ELSE
    LET f == find(t, t.root_idx, At(key, 0)) IN
    IF ~IsSome(f) THEN Ret(t, None)
    ELSE
    LET d == del_loop(t, key, t.root_idx, At(key, 0), Unwrap(f), 1) IN
    IF ~IsSome(d) THEN Ret(t, None)
    ELSE
    LET target_idx == Unwrap(d).target_idx
        node == get_node(t, target_idx)
        has_children == ~Childs_is_empty(node.childs) \/ IsSome(get_next_idx(node.childs)) IN
    IF has_children
    THEN IF ~IsSome(node.val) THEN Ret(t, None)
         ELSE LET t1 == put_node(t, target_idx, [node EXCEPT !.val = None]) IN
              Ret(try_recompress(t1, target_idx), node.val)
    ELSE Ret(put_node(t, target_idx, [node EXCEPT !.val = None]), node.val)

del(t, key) ==
    IF Len(key) = 0
    THEN IF ~HasNode(t, t.root_idx) THEN Ret(Panicked(t), None)
         ELSE LET root == get_node(t, t.root_idx)
                  old_val == root.val
                  t1 == put_node(t, t.root_idx, [root EXCEPT !.val = None]) IN
              Ret(try_recompress(t1, t.root_idx), old_val)
    ELSE
    LET f == find(t, t.root_idx, At(key, 0)) IN
    IF ~IsSome(f) THEN Ret(t, None)
    ELSE
    LET d == del_loop(t, key, t.root_idx, At(key, 0), Unwrap(f), 1) IN
    IF ~IsSome(d) THEN Ret(t, None)
    ELSE
    LET target_idx == Unwrap(d).target_idx
        parent_idx == Unwrap(d).parent_idx
        parent_radix == Unwrap(d).parent_radix
        node == get_node(t, target_idx)
        has_children == ~Childs_is_empty(node.childs) \/ IsSome(get_next_idx(node.childs)) IN
    IF has_children
    THEN IF ~IsSome(node.val) THEN Ret(t, None)
         ELSE LET t1 == put_node(t, target_idx, [node EXCEPT !.val = None]) IN
              Ret(try_recompress(t1, target_idx), node.val)
    ELSE LET t1 == [t EXCEPT !.map = SlabRemove(@, target_idx)] IN
         IF ~IsSome(node.val) THEN Ret(t1, None)
         ELSE LET t2 == remove_child(t1, parent_idx, parent_radix) IN
              IF t2.panic THEN Ret(t2, None)
              ELSE IF parent_idx # t.root_idx
              THEN Ret(try_recompress(t2, parent_idx), node.val)
              ELSE Ret(t2, node.val)

(***************************************************************************)
(* deln                                                                    *)
(***************************************************************************)
(* All (radix, child index) entries of a node: primary region, then the
   overflow region when one is linked and present. *)
iter_all_children(t, node_idx) ==
    LET n == try_get_node(t, node_idx) IN
    IF ~IsSome(n) THEN <<>>
    ELSE LET childs == Unwrap(n).childs
             huge == IF IsSome(get_next_idx(childs))
                     THEN SlabGet(t.child_list, Unwrap(get_next_idx(childs)))
                     ELSE None IN
         Childs_iter(childs) \o (IF IsSome(huge) THEN Unwrap(huge) ELSE <<>>)

(* collect_child_indices that lists the node itself before its children. *)
collect_child_indices_with_self(t, node_idx) ==
    LET cs == iter_all_children(t, node_idx) IN
    <<node_idx>> \o [i \in 1 .. Len(cs) |-> cs[i][2]]

collect_child_indices(t, node_idx) ==
    LET cs == iter_all_children(t, node_idx) IN
    [i \in 1 .. Len(cs) |-> cs[i][2]]

(* free_subtree_iterative counting every freed node, valued or not. *)
RECURSIVE free_subtree_counts_nodes(_, _, _)
free_subtree_counts_nodes(t, stack, count) ==
    IF stack = <<>> \/ t.panic THEN Ret(t, count)
    ELSE
    LET node_idx == stack[Len(stack)]
        rest == SubSeq(stack, 1, Len(stack) - 1)
        n == try_get_node(t, node_idx) IN
    IF ~IsSome(n) THEN free_subtree_counts_nodes(t, rest, count)
    ELSE
    LET node == Unwrap(n)
        children == collect_child_indices(t, node_idx)
        huge_child_idx == get_next_idx(node.childs)
        t1 == IF ~IsSome(huge_child_idx) THEN t
              ELSE IF ~SlabContains(t.child_list, Unwrap(huge_child_idx)) THEN Panicked(t)
              ELSE [t EXCEPT !.child_list = SlabRemove(@, Unwrap(huge_child_idx))]
        t2 == IF t1.panic THEN t1 ELSE [t1 EXCEPT !.map = SlabRemove(@, node_idx)] IN
    free_subtree_counts_nodes(t2, rest \o children, count + 1)

(* free_subtree_iterative that does not push the children of a freed node. *)
RECURSIVE free_subtree_top_only(_, _, _)
free_subtree_top_only(t, stack, count) ==
    IF stack = <<>> \/ t.panic THEN Ret(t, count)
    ELSE
    LET node_idx == stack[Len(stack)]
        rest == SubSeq(stack, 1, Len(stack) - 1)
        n == try_get_node(t, node_idx) IN
    IF ~IsSome(n) THEN free_subtree_top_only(t, rest, count)
    ELSE
    LET node == Unwrap(n)
        huge_child_idx == get_next_idx(node.childs)
        count2 == IF IsSome(node.val) THEN count + 1 ELSE count
        t1 == IF ~IsSome(huge_child_idx) THEN t
              ELSE IF ~SlabContains(t.child_list, Unwrap(huge_child_idx)) THEN Panicked(t)
              ELSE [t EXCEPT !.child_list = SlabRemove(@, Unwrap(huge_child_idx))]
        t2 == IF t1.panic THEN t1 ELSE [t1 EXCEPT !.map = SlabRemove(@, node_idx)] IN
    free_subtree_top_only(t2, rest, count2)

(* free_subtree_iterative that leaves the overflow tables of the freed
   nodes allocated. *)
RECURSIVE free_subtree_keeps_tables(_, _, _)
free_subtree_keeps_tables(t, stack, count) ==
    IF stack = <<>> \/ t.panic THEN Ret(t, count)
    ELSE
    LET node_idx == stack[Len(stack)]
        rest == SubSeq(stack, 1, Len(stack) - 1)
        n == try_get_node(t, node_idx) IN
    IF ~IsSome(n) THEN free_subtree_keeps_tables(t, rest, count)
    ELSE
    LET node == Unwrap(n)
        children == collect_child_indices(t, node_idx)
        count2 == IF IsSome(node.val) THEN count + 1 ELSE count
        t2 == [t EXCEPT !.map = SlabRemove(@, node_idx)] IN
    free_subtree_keeps_tables(t2, rest \o children, count2)

RECURSIVE free_subtree_iterative(_, _, _)
free_subtree_iterative(t, stack, count) ==
    IF stack = <<>> \/ t.panic THEN Ret(t, count)
    ELSE
    LET node_idx == stack[Len(stack)]
        rest == SubSeq(stack, 1, Len(stack) - 1)
        n == try_get_node(t, node_idx) IN
    IF ~IsSome(n) THEN free_subtree_iterative(t, rest, count)
    ELSE
    LET node == Unwrap(n)
        children == collect_child_indices(t, node_idx)
        huge_child_idx == get_next_idx(node.childs)
        count2 == IF IsSome(node.val) THEN count + 1 ELSE count
        t1 == IF ~IsSome(huge_child_idx) THEN t
              ELSE IF ~SlabContains(t.child_list, Unwrap(huge_child_idx)) THEN Panicked(t)
              ELSE [t EXCEPT !.child_list = SlabRemove(@, Unwrap(huge_child_idx))]
        t2 == IF t1.panic THEN t1 ELSE [t1 EXCEPT !.map = SlabRemove(@, node_idx)] IN
    free_subtree_iterative(t2, rest \o children, count2)

(* deln_loop taking every Partial outcome for a match, wherever the prefix
   ends. *)
RECURSIVE deln_loop_any_partial(_, _, _, _, _, _)
deln_loop_any_partial(t, prefix, parent_idx, parent_radix, idx, cursor) ==
    LET n == try_get_node(t, idx) IN
    IF ~IsSome(n) THEN None
    ELSE LET node == Unwrap(n)
             c == compare_compression_key(node.compression, SliceFrom(prefix, cursor))
             found == Some([target_idx |-> idx, parent_idx |-> parent_idx, parent_radix |-> parent_radix]) IN
         IF c.tag = "Final" THEN found
         ELSE IF c.tag = "Partial" THEN found
         ELSE LET cursor2 == cursor + Len(node.compression)
                  f == find(t, idx, At(prefix, cursor2)) IN
              IF ~IsSome(f) THEN None
              ELSE deln_loop_any_partial(t, prefix, idx, At(prefix, cursor2), Unwrap(f), cursor2 + 1)

RECURSIVE deln_loop(_, _, _, _, _, _)
deln_loop(t, prefix, parent_idx, parent_radix, idx, cursor) ==
    LET n == try_get_node(t, idx) IN
    IF ~IsSome(n) THEN None
    ELSE LET node == Unwrap(n)
             c == compare_compression_key(node.compression, SliceFrom(prefix, cursor))
             found == Some([target_idx |-> idx, parent_idx |-> parent_idx, parent_radix |-> parent_radix]) IN
         IF c.tag = "Final" THEN found
         ELSE IF c.tag = "Partial"
         THEN IF c.n = Len(prefix) - cursor THEN found ELSE None
         ELSE LET cursor2 == cursor + Len(node.compression)
                  f == find(t, idx, At(prefix, cursor2)) IN
              IF ~IsSome(f) THEN None
              ELSE deln_loop(t, prefix, idx, At(prefix, cursor2), Unwrap(f), cursor2 + 1)

deln(t, prefix) ==
    IF Len(prefix) = 0
    THEN IF ~HasNode(t, t.root_idx) THEN Ret(Panicked(t), 0)
         ELSE LET root == get_node(t, t.root_idx)
                  had_val == IsSome(root.val)
                  t1 == put_node(t, t.root_idx, [root EXCEPT !.val = None])
                  childs_to_free == collect_child_indices(t1, t.root_idx)
                  t2 == put_node(t1, t.root_idx, [root EXCEPT !.val = None, !.childs = DefaultChilds])
                  fr == free_subtree_iterative(t2, childs_to_free, 0) IN
              Ret(fr.t, fr.ret + (IF had_val THEN 1 ELSE 0))
    ELSE
    LET f == find(t, t.root_idx, At(prefix, 0)) IN
    IF ~IsSome(f) THEN Ret(t, 0)
    ELSE
    LET d == deln_loop(t, prefix, t.root_idx, At(prefix, 0), Unwrap(f), 1) IN
    IF ~IsSome(d) THEN Ret(t, 0)
    ELSE
    LET target_idx == Unwrap(d).target_idx
        parent_idx == Unwrap(d).parent_idx
        parent_radix == Unwrap(d).parent_radix
        t1 == remove_child(t, parent_idx, parent_radix)
        fr == free_subtree_iterative(t1, <<target_idx>>, 0) IN
    IF fr.t.panic THEN fr
    ELSE IF parent_idx # t.root_idx
    THEN Ret(try_recompress(fr.t, parent_idx), fr.ret)
    ELSE fr

(***************************************************************************)
(* getn: the result is the sequence of <<key, value>> pairs in push order. *)
(***************************************************************************)
RECURSIVE collect_all(_, _, _, _)
RECURSIVE collect_children(_, _, _, _, _)
(* The closure passed to iter_all_children, applied to the children from
   position i on. *)
collect_children(t, children, i, key_path, results) ==
    IF i > Len(children) THEN results
    ELSE collect_children(t, children, i + 1, key_path,
                          collect_all(t, children[i][2], Append(key_path, children[i][1]), results))

collect_all(t, node_idx, key_prefix, results) ==
    LET n == try_get_node(t, node_idx) IN
    IF ~IsSome(n) THEN results
    ELSE LET node == Unwrap(n)
             key_path == key_prefix \o node.compression
             results1 == IF IsSome(node.val)
                         THEN Append(results, <<key_path, Unwrap(node.val)>>)
                         ELSE results IN
         collect_children(t, iter_all_children(t, node_idx), 1, key_path, results1)

collect_all_from(t, node_idx, key_path, results) ==
    LET n == try_get_node(t, node_idx) IN
    IF ~IsSome(n) THEN results
    ELSE LET node == Unwrap(n)
             results1 == IF IsSome(node.val)
                         THEN Append(results, <<key_path, Unwrap(node.val)>>)
                         ELSE results IN
         collect_children(t, iter_all_children(t, node_idx), 1, key_path, results1)

RECURSIVE getn_loop(_, _, _, _, _)
getn_loop(t, prefix, idx, cursor, key_path) ==
    LET radix == At(prefix, cursor)
        f == find(t, idx, radix) IN
    IF ~IsSome(f) THEN <<>>
    ELSE LET n == try_get_node(t, Unwrap(f)) IN
         IF ~IsSome(n) THEN <<>>
         ELSE LET node == Unwrap(n)
                  cursor1 == cursor + 1
                  key_path1 == Append(key_path, radix) \o node.compression
                  c == compare_compression_key(node.compression, SliceFrom(prefix, cursor1)) IN
              IF c.tag = "Final" THEN collect_all_from(t, Unwrap(f), key_path1, <<>>)
              ELSE IF c.tag = "Partial"
              THEN IF c.n = Len(prefix) - cursor1
                   THEN collect_all_from(t, Unwrap(f), key_path1, <<>>)
                   ELSE <<>>
              ELSE getn_loop(t, prefix, Unwrap(f), cursor1 + Len(node.compression), key_path1)

getn(t, prefix) ==
    IF Len(prefix) = 0 THEN collect_all(t, t.root_idx, <<>>, <<>>)
    ELSE getn_loop(t, prefix, t.root_idx, 0, <<>>)

(***************************************************************************)
(* The state machine.                                                      *)
(***************************************************************************)
Tree == [map |-> map, child_list |-> child_list, root_idx |-> root_idx, panic |-> panic]

Install(t) ==
    /\ map' = t.map
    /\ child_list' = t.child_list
    /\ root_idx' = t.root_idx
    /\ panic' = t.panic

NoCall == [op |-> "new", key |-> <<>>, val |-> 0, ret |-> None]

(* k starts with p. *)
StartsWith(k, p) == Len(p) <= Len(k) /\ SubSeq(k, 1, Len(p)) = p

(* The runtime right after Rc::new(RefCell::new(Self::new())) in
   shared_with_ticker: the caller is running and is about to take the borrow
   for the initial tick, no ticker task exists, nobody holds a borrow of the
   RefCell, and the timestamp has not been set. *)
NoRuntime ==
    [main |-> "init_borrow", ticker |-> "unspawned", running |-> "main",
     borrow |-> {}, now |-> 0, clock |-> 1, wake_main |-> 0, wake_ticker |-> 0]

Init ==
    /\ stored = [k \in Keys |-> None]
    /\ map = new.map
    /\ child_list = new.child_list
    /\ root_idx = new.root_idx
    /\ panic = new.panic
    /\ last = NoCall
    /\ nops = 0
    /\ rt = NoRuntime

Set(k, v) ==
    /\ ~panic
    /\ nops < MaxOps
    /\ Install(set(Tree, k, v))
    /\ last' = [op |-> "set", key |-> k, val |-> v, ret |-> None]
    /\ stored' = [stored EXCEPT ![k] = Some(v)]
    /\ nops' = nops + 1
    /\ UNCHANGED rt

Del(k) ==
    /\ ~panic
    /\ nops < MaxOps
    /\ LET r == del(Tree, k) IN
        /\ Install(r.t)
        /\ last' = [op |-> "del", key |-> k, val |-> 0, ret |-> r.ret]
    /\ stored' = [stored EXCEPT ![k] = None]
    /\ nops' = nops + 1
    /\ UNCHANGED rt

Deln(p) ==
    /\ ~panic
    /\ nops < MaxOps
    /\ LET r == deln(Tree, p) IN
        /\ Install(r.t)
        /\ last' = [op |-> "deln", key |-> p, val |-> 0, ret |-> r.ret]
    /\ stored' = [k \in Keys |-> IF StartsWith(k, p) THEN None ELSE stored[k]]
    /\ nops' = nops + 1
    /\ UNCHANGED rt

Get(k) ==
    /\ ~panic
    /\ nops < MaxOps
    /\ UNCHANGED <<map, child_list, root_idx, panic, stored, rt>>
    /\ last' = [op |-> "get", key |-> k, val |-> 0, ret |-> get(Tree, k)]
    /\ nops' = nops + 1

Getn(p) ==
    /\ ~panic
    /\ nops < MaxOps
    /\ UNCHANGED <<map, child_list, root_idx, panic, stored, rt>>
    /\ last' = [op |-> "getn", key |-> p, val |-> 0, ret |-> getn(Tree, p)]
    /\ nops' = nops + 1

Next ==
    \/ \E k \in Keys, v \in Vals : Set(k, v)
    \/ \E k \in Keys : Del(k)
    \/ \E p \in Keys : Deln(p)
    \/ \E k \in Keys : Get(k)
    \/ \E p \in Keys : Getn(p)

Spec == Init /\ [][Next]_vars

(* A fresh tree on which only set is called, each time with a key that was
   not inserted before. *)
SetFresh(k, v) == stored[k] = None /\ Set(k, v)

NextSet == \E k \in Keys, v \in Vals : SetFresh(k, v)

SpecSet == Init /\ [][NextSet]_vars

(***************************************************************************)
(* A node with more children than its primary region holds.                *)
(*                                                                         *)
(* The calls are made with the two-byte keys FirstRadix.r, r over one      *)
(* radix more than fills the primary region and starts an overflow region, *)
(* and with the one-byte key FirstRadix, the key of their common parent.   *)
(* set adds the smallest radix not stored (or overwrites the largest       *)
(* stored one); del removes the largest stored radix, or the smallest one  *)
(* while the overflow region holds entries, and a gap left below the       *)
(* largest stored radix is filled before the next del.  The runs are not   *)
(* bounded in length, and leave the call counter nops alone.               *)
(***************************************************************************)
WideRadixes == 0 .. (CHILDS_SIZE + 1)
WideKey(r) == <<FirstRadix, r>>
KeyA == <<FirstRadix>>

(* The radixes r whose key FirstRadix.r is stored. *)
WideStored == {r \in WideRadixes : IsSome(get(Tree, WideKey(r)))}
SetMin(S) == CHOOSE x \in S : \A y \in S : x <= y
SetMax(S) == CHOOSE x \in S : \A y \in S : x >= y
(* A radix below a stored one is not stored. *)
WideHole == \E r \in WideRadixes \ WideStored : \E s \in WideStored : r < s

WideSet(r) ==
    /\ ~panic
    /\ \/ r \notin WideStored /\ r = SetMin(WideRadixes \ WideStored)
       \/ r \in WideStored /\ r = SetMax(WideStored)
    /\ Install(set(Tree, WideKey(r), 1))
    /\ last' = [op |-> "set", key |-> WideKey(r), val |-> 1, ret |-> None]
    /\ UNCHANGED <<stored, nops, rt>>

WideDel(r) ==
    /\ ~panic
    /\ r \in WideStored
    /\ ~WideHole
    /\ \/ r = SetMax(WideStored)
       \/ r = SetMin(WideStored) /\ Cardinality(WideStored) > CHILDS_SIZE
    /\ LET d == del(Tree, WideKey(r)) IN
        /\ Install(d.t)
        /\ last' = [op |-> "del", key |-> WideKey(r), val |-> 0, ret |-> d.ret]
    /\ UNCHANGED <<stored, nops, rt>>

(* set and del of the parent's own key. *)
WideSetA ==
    /\ ~panic
    /\ get(Tree, KeyA) = None
    /\ Install(set(Tree, KeyA, 1))
    /\ last' = [op |-> "set", key |-> KeyA, val |-> 1, ret |-> None]
    /\ UNCHANGED <<stored, nops, rt>>

WideDelA ==
    /\ ~panic
    /\ IsSome(get(Tree, KeyA))
    /\ LET d == del(Tree, KeyA) IN
        /\ Install(d.t)
        /\ last' = [op |-> "del", key |-> KeyA, val |-> 0, ret |-> d.ret]
    /\ UNCHANGED <<stored, nops, rt>>

NextWide ==
    \/ \E r \in WideRadixes : WideSet(r)
    \/ \E r \in WideRadixes : WideDel(r)
    \/ WideSetA
    \/ WideDelA

SpecWide == Init /\ [][NextWide]_vars

(***************************************************************************)
(* A node filled with a child under every byte a key may hold.             *)
(*                                                                         *)
(* The calls are set with the one-byte keys, in increasing order of the    *)
(* byte, on a fresh tree: each adds one child to the root.                 *)
(***************************************************************************)
(* The bytes u8::is_ascii accepts. *)
AsciiBytes == 0 .. ASCII_MAX_CHAR

FillSet(r) ==
    /\ ~panic
    /\ r = Len(iter_all_children(Tree, root_idx))
    /\ Install(set(Tree, <<r>>, 1))
    /\ last' = [op |-> "set", key |-> <<r>>, val |-> 1, ret |-> None]
    /\ UNCHANGED <<stored, nops, rt>>

NextFill == \E r \in AsciiBytes : FillSet(r)

SpecFill == Init /\ [][NextFill]_vars

(***************************************************************************)
(* compare_compression_key on its own.                                     *)
(*                                                                         *)
(* The function is applied to every pair of a compression and a key tail   *)
(* over the alphabet, up to the longest key length; the call and its       *)
(* result are recorded in last, the tree is left alone.                    *)
(***************************************************************************)
CmpStrings == UNION {[1 .. n -> Radixes] : n \in 0 .. MaxKeyLen}

Compare(compression, key_rest) ==
    /\ last' = [op |-> "compare_compression_key",
                key |-> <<compression, key_rest>>,
                val |-> 0,
                ret |-> compare_compression_key(compression, key_rest)]
    /\ UNCHANGED <<map, child_list, root_idx, panic, stored, nops, rt>>

NextCmp == \E compression \in CmpStrings, key_rest \in CmpStrings : Compare(compression, key_rest)

SpecCmp == Init /\ [][NextCmp]_vars

(***************************************************************************)
(* Observations used by the properties.                                    *)
(***************************************************************************)
(* Every key the properties probe: all byte strings over the alphabet up to
   the longest key length, and every one-byte extension of a key the
   operations are called with. *)
ProbeKeys ==
    (UNION {[1 .. n -> Radixes] : n \in 0 .. MaxKeyLen})
        \cup {Append(k, r) : k \in Keys, r \in Radixes}

(* What the calls made so far say get(k) is. *)
Expected(k) == IF k \in Keys THEN stored[k] ELSE None

KeyAA == <<FirstRadix, FirstRadix>>
KeyAAA == <<FirstRadix, FirstRadix, FirstRadix>>
KeyAAB == <<FirstRadix, FirstRadix, FirstRadix + 1>>

(* The step just taken was a call of op. *)
Called(op) == nops' = nops + 1 /\ last'.op = op

(***************************************************************************)
(* C1: on a fresh tree where only set was called, with distinct keys,      *)
(* get returns the inserted value for every inserted key and None for      *)
(* every other key (prefixes, extensions and split points included).       *)
(***************************************************************************)
C1_RoundTrip == \A k \in ProbeKeys : get(Tree, k) = Expected(k)

(* Two stored keys split inside a compression at "aa", "a" is stored too:
   the split point, a proper prefix and a proper extension are all probed. *)
C1_Witness ==
    /\ last.op = "set"
    /\ IsSome(stored[KeyAAA]) /\ IsSome(stored[KeyAAB]) /\ IsSome(stored[KeyA])
    /\ stored[KeyAA] = None
    /\ get(Tree, KeyAA) = None
    /\ get(Tree, KeyAAA) = stored[KeyAAA]

TreeNext == [map |-> map', child_list |-> child_list', root_idx |-> root_idx', panic |-> panic']

(* The elements of a sequence, and "no element occurs twice". *)
Range(s) == {s[i] : i \in 1 .. Len(s)}
NoDuplicates(s) == \A i, j \in 1 .. Len(s) : s[i] = s[j] => i = j

(* The pairs (k, v) with k starting with p and get(k) = Some(v). *)
PairsUnder(t, p) ==
    {<<k, Unwrap(get(t, k))>> : k \in {x \in ProbeKeys : StartsWith(x, p) /\ IsSome(get(t, x))}}

(***************************************************************************)
(* C2: in every reachable state set(k, v) is a map update: afterwards      *)
(* get(k) = Some(v) and get(k') is what it was for every other key k'.     *)
(***************************************************************************)
C2_SetIsMapUpdate ==
    [][Called("set") =>
          /\ get(TreeNext, last'.key) = Some(last'.val)
          /\ \A k \in ProbeKeys \ {last'.key} : get(TreeNext, k) = get(Tree, k)]_vars

(* A set that ran after a removal had left a hole in the node arena. *)
C2_Witness ==
    /\ last.op = "set"
    /\ get(Tree, last.key) = Some(last.val)
    /\ map.free # <<>>

(***************************************************************************)
(* C3: del(k) returns what get(k) returned just before, and get(k) is      *)
(* None just after, for every key k, the empty key included.               *)
(***************************************************************************)
C3_DelReturnsAndRemoves ==
    [][Called("del") =>
          /\ last'.ret = get(Tree, last'.key)
          /\ get(TreeNext, last'.key) = None]_vars

(***************************************************************************)
(* C4: del(k) changes get(k') for no key k' other than k.                  *)
(***************************************************************************)
C4_DelFrame ==
    [][Called("del") =>
          \A k \in ProbeKeys \ {last'.key} : get(TreeNext, k) = get(Tree, k)]_vars

(***************************************************************************)
(* C5: the root node's compression is empty in every reachable state.      *)
(***************************************************************************)
C5_RootCompressionEmpty ==
    HasNode(Tree, root_idx) /\ get_node(Tree, root_idx).compression = <<>>

(***************************************************************************)
(* C6: del(k) of a key that is not stored returns None and changes neither *)
(* arena (no node's compression, value or child table changes).            *)
(***************************************************************************)
C6_DelAbsentIsNoOp ==
    [][Called("del") /\ get(Tree, last'.key) = None =>
          /\ last'.ret = None
          /\ map' = map
          /\ child_list' = child_list]_vars

(***************************************************************************)
(* C7: for every prefix P, getn(P) lists exactly the pairs (k, v) with k   *)
(* starting with P and get(k) = Some(v), each exactly once.                *)
(***************************************************************************)
C7_GetnExact ==
    \A p \in Keys :
        /\ Range(getn(Tree, p)) = PairsUnder(Tree, p)
        /\ NoDuplicates(getn(Tree, p))

(***************************************************************************)
(* C8: after deln(P), getn(P) is empty and get(k) is unchanged for every   *)
(* key k that does not start with P.                                       *)
(***************************************************************************)
C8_DelnFrame ==
    [][Called("deln") =>
          /\ getn(TreeNext, last'.key) = <<>>
          /\ \A k \in ProbeKeys :
                ~StartsWith(k, last'.key) => get(TreeNext, k) = get(Tree, k)]_vars

(* A deln that removed a pair and left another one. *)
C8_Witness ==
    /\ last.op = "deln"
    /\ last.ret >= 1
    /\ \E k \in Keys : IsSome(get(Tree, k))

(***************************************************************************)
(* C9: deln(P) returns the number of pairs getn(P) returned just before,   *)
(* and 0 when no stored key starts with P.                                 *)
(***************************************************************************)
C9_DelnCount ==
    [][Called("deln") =>
          /\ last'.ret = Len(getn(Tree, last'.key))
          /\ (PairsUnder(Tree, last'.key) = {} => last'.ret = 0)]_vars

(* A deln of a non-empty prefix that removed two pairs and freed three nodes
   (the value-less inner node above them is not counted). *)
C9_Witness ==
    /\ last.op = "deln"
    /\ last.key # <<>>
    /\ last.ret = 2
    /\ Len(map.free) >= 3

(***************************************************************************)
(* C10: after deln of the empty prefix nothing is stored: get is None for  *)
(* every key, getn("") is empty, and the node arena holds the root alone,  *)
(* without value and without children.                                     *)
(***************************************************************************)
C10_DelnEmptyClears ==
    (last.op = "deln" /\ last.key = <<>>) =>
        /\ \A k \in ProbeKeys : get(Tree, k) = None
        /\ getn(Tree, <<>>) = <<>>
        /\ SlabKeys(map) = {root_idx}
        /\ get_node(Tree, root_idx).val = None
        /\ iter_all_children(Tree, root_idx) = <<>>

(* deln("") that removed two pairs and freed three nodes. *)
C10_Witness ==
    /\ last.op = "deln"
    /\ last.key = <<>>
    /\ last.ret >= 2
    /\ Len(map.free) >= 3

(***************************************************************************)
(* Shape of the live nodes.                                                *)
(***************************************************************************)
(* Indices of the live nodes other than the root. *)
NonRootNodes(t) == SlabKeys(t.map) \ {t.root_idx}

(* Number of children in the primary region of a node. *)
PrimaryCount(node) == Len(node.childs.idxs)

(* The node has an overflow region attached. *)
HasOverflow(node) == IsSome(get_next_idx(node.childs))

(***************************************************************************)
(* C11: after every mutating call no non-root node is at the same time     *)
(* without a value, with exactly one child in its primary region and       *)
(* without an overflow region.                                             *)
(***************************************************************************)
C11_NoRecompressibleNode ==
    \A i \in NonRootNodes(Tree) :
        LET node == get_node(Tree, i) IN
            ~(/\ node.val = None
              /\ PrimaryCount(node) = 1
              /\ ~HasOverflow(node))

(* A del has just merged a value-less node with its only remaining child:
   the removed leaf and the absorbed child are both vacated. *)
C11_Witness ==
    /\ last.op = "del"
    /\ IsSome(last.ret)
    /\ Len(map.free) >= 2
    /\ NonRootNodes(Tree) # {}

(* Number of children of a node, primary and overflow regions together. *)
ChildCount(t, i) == Len(iter_all_children(t, i))

(***************************************************************************)
(* C12: after every mutating call every non-root node holds a value or     *)
(* has at least two children, primary and overflow entries counted         *)
(* together.                                                               *)
(***************************************************************************)
C12_ValueOrTwoChildren ==
    \A i \in NonRootNodes(Tree) :
        IsSome(get_node(Tree, i).val) \/ ChildCount(Tree, i) >= 2

(* C12, amended: after every mutating call every non-root node holds a
   value, or has an overflow region attached, or has at least two children
   in its primary region. *)
C12_ValueOrOverflowOrTwoChildren ==
    \A i \in NonRootNodes(Tree) :
        LET node == get_node(Tree, i) IN
            \/ IsSome(node.val)
            \/ HasOverflow(node)
            \/ PrimaryCount(node) >= 2

(* A del has just left a value-less node with an overflow region attached
   and at most one child. *)
C12_Witness ==
    /\ last.op = "del"
    /\ IsSome(last.ret)
    /\ \E i \in NonRootNodes(Tree) :
        LET node == get_node(Tree, i) IN
            /\ node.val = None
            /\ HasOverflow(node)
            /\ ChildCount(Tree, i) <= 1

(* The radixes of the children of a node, primary region then overflow. *)
ChildRadixes(t, i) ==
    LET cs == iter_all_children(t, i) IN [j \in 1 .. Len(cs) |-> cs[j][1]]

(* The entries of the overflow region of a node (none when not attached). *)
OverflowEntries(t, i) ==
    LET nxt == get_next_idx(get_node(t, i).childs) IN
    IF IsSome(nxt) /\ SlabContains(t.child_list, Unwrap(nxt))
    THEN Unwrap(SlabGet(t.child_list, Unwrap(nxt)))
    ELSE <<>>

(***************************************************************************)
(* C13: in every node the radixes of the primary and overflow regions      *)
(* taken together are pairwise distinct, also after children were removed  *)
(* from the primary region while the overflow region holds entries and     *)
(* new children were added.                                                *)
(***************************************************************************)
C13_RadixesUnique ==
    \A i \in SlabKeys(map) : NoDuplicates(ChildRadixes(Tree, i))

(* A set has just pushed a new child into the primary region of a node
   whose overflow region holds entries: a child was removed from the primary
   region before, and the freed slot is taken again. *)
C13_Witness ==
    /\ last.op = "set"
    /\ Len(last.key) = 2
    /\ \E i \in SlabKeys(map) :
        LET node == get_node(Tree, i) IN
            /\ OverflowEntries(Tree, i) # <<>>
            /\ PrimaryCount(node) = CHILDS_SIZE
            /\ node.childs.radixs[CHILDS_SIZE] = last.key[2]
            /\ node.childs.radixs[CHILDS_SIZE] # CHILDS_SIZE - 1

(* The (parent, position) child-table entries that hold node index i. *)
ParentEntries(t, i) ==
    {e \in UNION {{<<p, j>> : j \in 1 .. ChildCount(t, p)} : p \in SlabKeys(t.map)} :
        collect_child_indices(t, e[1])[e[2]] = i}

(* The nodes reached from the nodes of frontier along child-table entries. *)
RECURSIVE ReachFrom(_, _, _)
ReachFrom(t, frontier, seen) ==
    IF frontier = {} THEN seen
    ELSE LET nxt == UNION {Range(collect_child_indices(t, i)) : i \in frontier} \ seen IN
         ReachFrom(t, nxt, seen \cup nxt)

(* The live nodes that link the overflow region h. *)
OverflowOwners(t, h) ==
    {i \in SlabKeys(t.map) : get_next_idx(get_node(t, i).childs) = Some(h)}

C15_RoomForEveryRadix ==
    /\ ~panic
    /\ \A i \in SlabKeys(map) :
        /\ PrimaryCount(get_node(Tree, i)) <= CHILDS_SIZE
        /\ Len(OverflowEntries(Tree, i)) <= HUGE_CHILDS_SIZE

(* The node arena with every value erased: the live indices, and each
   node's compression and child table. *)
Skeleton(t) ==
    [i \in SlabKeys(t.map) |-> [get_node(t, i) EXCEPT !.val = None]]

(***************************************************************************)
(* C16: set(k, v2) on a stored key k replaces its value and leaves the     *)
(* number of nodes, the number of overflow tables and every node's         *)
(* compression and child table unchanged.                                  *)
(***************************************************************************)
C16_OverwriteKeepsShape ==
    [][(Called("set") /\ IsSome(get(Tree, last'.key))) =>
          /\ get(TreeNext, last'.key) = Some(last'.val)
          /\ Cardinality(SlabKeys(map')) = Cardinality(SlabKeys(map))
          /\ Cardinality(SlabKeys(child_list')) = Cardinality(SlabKeys(child_list))
          /\ Skeleton(TreeNext) = Skeleton(Tree)
          /\ child_list' = child_list]_vars

(* The state after set("a", 1); set("aa", 1); set("a", 2): a stored key with
   a stored extension below it has just been overwritten. *)
C16_Witness ==
    /\ last.op = "set"
    /\ last.key = KeyA
    /\ last.val = 2
    /\ get(Tree, KeyA) = Some(2)
    /\ IsSome(get(Tree, KeyAA))
    /\ Cardinality(SlabKeys(map)) = 3
    /\ nops = 3

(* Number of nodes below the root that get(key) loads: the loop of get,
   counting its iterations instead of returning the value. *)
RECURSIVE get_visits_loop(_, _, _, _)
get_visits_loop(t, key, idx, cursor) ==
    LET f == find(t, idx, At(key, cursor)) IN
    IF ~IsSome(f) THEN 0
    ELSE LET n == try_get_node(t, Unwrap(f)) IN
         IF ~IsSome(n) THEN 0
         ELSE LET node == Unwrap(n)
                  c == compare_compression_key(node.compression, SliceFrom(key, cursor + 1)) IN
              IF c.tag = "Path"
              THEN 1 + get_visits_loop(t, key, Unwrap(f), cursor + 1 + Len(node.compression))
              ELSE 1

get_visits(t, key) ==
    IF Len(key) = 0 THEN 0 ELSE get_visits_loop(t, key, t.root_idx, 0)

(* Every key a call of one of the specifications may have stored. *)
AllKeys == ProbeKeys \cup {KeyA} \cup {WideKey(r) : r \in WideRadixes}

(* The key-value pairs get finds in t. *)
StoredPairs(t) == {<<k, Unwrap(get(t, k))>> : k \in {k \in AllKeys : IsSome(get(t, k))}}

(* The tree a second run builds: the pairs are set one after the other,
   starting from t. *)
RECURSIVE SetAll(_, _)
SetAll(t, pairs) ==
    IF pairs = {} THEN t
    ELSE LET p == CHOOSE p \in pairs : TRUE IN
         SetAll(set(t, p[1], p[2]), pairs \ {p})

(* A fresh tree on which exactly the stored pairs were set. *)
FreshTree == SetAll(new, StoredPairs(Tree))

C18_SetDelRestores ==
    \A k \in Keys, v \in Vals :
        get(Tree, k) = None =>
            LET d == del(set(Tree, k, v), k) IN
                /\ d.ret = Some(v)
                /\ Cardinality(SlabKeys(d.t.map)) = Cardinality(SlabKeys(map))
                /\ \A q \in ProbeKeys : get(d.t, q) = get(Tree, q)

(***************************************************************************)
(* C19: root_idx always has the value new() gave it, and the node arena    *)
(* holds a live node at that index.                                        *)
(***************************************************************************)
C19_RootFixed ==
    /\ root_idx = new.root_idx
    /\ HasNode(Tree, root_idx)

(* deln of the empty prefix has just freed every node below the root. *)
C19_Witness ==
    /\ last.op = "deln"
    /\ last.key = <<>>
    /\ last.ret >= 1
    /\ map.free # <<>>
    /\ SlabKeys(map) = {root_idx}

(* The length of the longest common prefix of two byte strings. *)
LongestCommonPrefix(a, b) ==
    CHOOSE n \in 0 .. Min(Len(a), Len(b)) :
        /\ SubSeq(a, 1, n) = SubSeq(b, 1, n)
        /\ n = Min(Len(a), Len(b)) \/ a[n + 1] # b[n + 1]

(* p is a prefix of k and shorter than k. *)
ProperPrefix(p, k) == StartsWith(k, p) /\ Len(p) < Len(k)

(***************************************************************************)
(* C20: compare_compression_key puts every pair (compression, tail) into   *)
(* exactly one outcome: Final exactly when they are equal, Path exactly    *)
(* when the compression is a proper prefix of the tail, and Partial(n)     *)
(* otherwise, where n is the length of their longest common prefix, is     *)
(* less than the length of the compression, and equals the length of the   *)
(* tail exactly when the tail is a proper prefix of the compression.       *)
(***************************************************************************)
C20_CompareClassifies ==
    last.op = "compare_compression_key" =>
        LET compression == last.key[1]
            tail == last.key[2]
            r == last.ret IN
            /\ r.tag \in {"Final", "Path", "Partial"}
            /\ r.tag = "Final" <=> compression = tail
            /\ r.tag = "Path" <=> ProperPrefix(compression, tail)
            /\ r.tag = "Partial" <=> (compression # tail /\ ~ProperPrefix(compression, tail))
            /\ r.tag = "Partial" =>
                /\ r = Partial(LongestCommonPrefix(compression, tail))
                /\ r.n < Len(compression)
                /\ r.n = Len(tail) <=> ProperPrefix(tail, compression)

(* The tail is a non-empty proper prefix of the compression: Partial with
   the length of the tail. *)
C20_Witness ==
    /\ last.op = "compare_compression_key"
    /\ last.ret.tag = "Partial"
    /\ last.ret.n = Len(last.key[2])
    /\ last.ret.n >= 1

(* The node set(key, ..) splits and the length of the common part, found by
   the descent of set; None when the call ends without a split. *)
RECURSIVE set_split_loop(_, _, _, _)
set_split_loop(t, key, idx, cursor) ==
    LET f == find(t, idx, At(key, cursor)) IN
    IF ~IsSome(f) THEN None
    ELSE LET child_idx == Unwrap(f) IN
         IF ~HasNode(t, child_idx) THEN None
         ELSE LET node == get_node(t, child_idx)
                  c == compare_compression_key(node.compression, SliceFrom(key, cursor + 1)) IN
              IF c.tag = "Final" THEN None
              ELSE IF c.tag = "Path"
              THEN set_split_loop(t, key, child_idx, cursor + 1 + Len(node.compression))
              ELSE Some([idx |-> child_idx, n |-> c.n, key_rest |-> SliceFrom(key, cursor + 1)])

set_split_point(t, key) ==
    IF Len(key) = 0 THEN None ELSE set_split_loop(t, key, t.root_idx, 0)

(***************************************************************************)
(* C21: when set splits a node X with compression C at Partial(n), then    *)
(* afterwards X's compression is C[..n]; X has a child under radix C[n]    *)
(* with compression C[n+1..], X's former value and X's whole former child  *)
(* table, overflow link included; and X holds the new value and has that   *)
(* one child only (the key ended at the split point), or holds no value    *)
(* and has two children under two distinct radixes.                        *)
(***************************************************************************)
C21_SplitShape ==
    [][(Called("set") /\ IsSome(set_split_point(Tree, last'.key))) =>
          LET sp == Unwrap(set_split_point(Tree, last'.key))
              old == get_node(Tree, sp.idx)
              C == old.compression
              X == get_node(TreeNext, sp.idx)
              under == find(TreeNext, sp.idx, At(C, sp.n)) IN
              /\ X.compression = SliceTo(C, sp.n)
              /\ IsSome(under)
              /\ HasNode(TreeNext, Unwrap(under))
              /\ get_node(TreeNext, Unwrap(under)) =
                     [compression |-> SliceFrom(C, sp.n + 1),
                      val |-> old.val,
                      childs |-> old.childs]
              /\ ~HasOverflow(X)
              /\ IF sp.n = Len(sp.key_rest)
                 THEN /\ X.val = Some(last'.val)
                      /\ ChildRadixes(TreeNext, sp.idx) = <<At(C, sp.n)>>
                 ELSE /\ X.val = None
                      /\ ChildCount(TreeNext, sp.idx) = 2
                      /\ Range(ChildRadixes(TreeNext, sp.idx)) =
                             {At(C, sp.n), At(sp.key_rest, sp.n)}
                      /\ At(C, sp.n) # At(sp.key_rest, sp.n)]_vars

(* set("aa"); set("aaa"); set("ab"): the node that held "aa" and had a
   child was split, and is now a value-less node with two children, one of
   them the old content with its child. *)
C21_Witness ==
    /\ last.op = "set"
    /\ last.key = <<FirstRadix, FirstRadix + 1>>
    /\ nops = 3
    /\ \E i \in NonRootNodes(Tree) :
        /\ get_node(Tree, i).val = None
        /\ ChildCount(Tree, i) = 2
        /\ \E j \in Range(collect_child_indices(Tree, i)) :
              IsSome(get_node(Tree, j).val) /\ ChildCount(Tree, j) = 1

(* The node under which set(key, ..) attaches a new leaf because the child
   for the next key byte is missing, and that byte; None when the descent
   of set ends otherwise. *)
RECURSIVE set_attach_loop(_, _, _, _)
set_attach_loop(t, key, idx, cursor) ==
    LET f == find(t, idx, At(key, cursor)) IN
    IF ~IsSome(f) THEN Some([idx |-> idx, radix |-> At(key, cursor)])
    ELSE LET child_idx == Unwrap(f) IN
         IF ~HasNode(t, child_idx) THEN None
         ELSE LET node == get_node(t, child_idx)
                  c == compare_compression_key(node.compression, SliceFrom(key, cursor + 1)) IN
              IF c.tag = "Path"
              THEN set_attach_loop(t, key, child_idx, cursor + 1 + Len(node.compression))
              ELSE None

set_attach_point(t, key) ==
    IF Len(key) = 0 THEN None ELSE set_attach_loop(t, key, t.root_idx, 0)

(* The step changes the tree. *)
TreeChanged == TreeNext # Tree

(***************************************************************************)
(* C22: when set attaches a new leaf to a parent, the entry goes into the  *)
(* primary region if it has room; otherwise, if the parent has no overflow *)
(* region, one is allocated with this entry alone and linked to the        *)
(* parent; otherwise the entry is pushed into the linked overflow region.  *)
(* So an overflow table is allocated only when the parent's primary region *)
(* holds CHILDS_SIZE entries, and a node that has an overflow table is     *)
(* never linked to another one.                                            *)
(***************************************************************************)
C22_AttachRule ==
    [][/\ (TreeChanged /\ last'.op = "set" /\ IsSome(set_attach_point(Tree, last'.key))) =>
            LET ap == Unwrap(set_attach_point(Tree, last'.key))
                P == get_node(Tree, ap.idx)
                Q == get_node(TreeNext, ap.idx)
                leaf == insert_idx(Tree)
                entry == <<ap.radix, leaf>> IN
                /\ HasNode(TreeNext, leaf) /\ ~HasNode(Tree, leaf)
                /\ IF PrimaryCount(P) < CHILDS_SIZE
                   THEN /\ Childs_iter(Q.childs) = Append(Childs_iter(P.childs), entry)
                        /\ get_next_idx(Q.childs) = get_next_idx(P.childs)
                        /\ child_list' = child_list
                   ELSE IF ~HasOverflow(P)
                   THEN /\ Childs_iter(Q.childs) = Childs_iter(P.childs)
                        /\ HasOverflow(Q)
                        /\ ~SlabContains(child_list, Unwrap(get_next_idx(Q.childs)))
                        /\ OverflowEntries(TreeNext, ap.idx) = <<entry>>
                        /\ SlabKeys(child_list') =
                               SlabKeys(child_list) \cup {Unwrap(get_next_idx(Q.childs))}
                   ELSE /\ Q.childs = P.childs
                        /\ OverflowEntries(TreeNext, ap.idx) =
                               Append(OverflowEntries(Tree, ap.idx), entry)
                        /\ SlabKeys(child_list') = SlabKeys(child_list)
       /\ \A h \in SlabKeys(child_list') \ SlabKeys(child_list) :
            \E i \in SlabKeys(map) :
                /\ PrimaryCount(get_node(Tree, i)) = CHILDS_SIZE
                /\ ~HasOverflow(get_node(Tree, i))
                /\ get_next_idx(get_node(TreeNext, i).childs) = Some(h)
       /\ \A i \in SlabKeys(map) \cap SlabKeys(map') :
            (HasOverflow(get_node(Tree, i)) /\ HasOverflow(get_node(TreeNext, i))) =>
                get_next_idx(get_node(TreeNext, i).childs) = get_next_idx(get_node(Tree, i).childs)
      ]_vars

(* A set has just pushed a second entry into the overflow region of a node
   whose primary region is full. *)
C22_Witness ==
    /\ last.op = "set"
    /\ \E i \in SlabKeys(map) :
        /\ PrimaryCount(get_node(Tree, i)) = CHILDS_SIZE
        /\ Len(OverflowEntries(Tree, i)) = 2
        /\ OverflowEntries(Tree, i)[2][1] = last.key[Len(last.key)]

(***************************************************************************)
(* A root with more children than its primary region holds, cleared by     *)
(* deln of the empty prefix.                                               *)
(*                                                                         *)
(* The calls are set with the one-byte keys, in increasing order, up to    *)
(* one child more than the primary region holds, and deln(""), which is    *)
(* called as long as fewer than MaxStranded overflow tables are linked     *)
(* from no node.                                                           *)
(***************************************************************************)
MaxStranded == 2

(* The overflow tables in the arena that no live node links. *)
Unlinked(t) == {h \in SlabKeys(t.child_list) : OverflowOwners(t, h) = {}}

RootDeln ==
    /\ ~panic
    /\ Cardinality(Unlinked(Tree)) < MaxStranded
    /\ LET d == deln(Tree, <<>>) IN
        /\ Install(d.t)
        /\ last' = [op |-> "deln", key |-> <<>>, val |-> 0, ret |-> d.ret]
    /\ UNCHANGED <<stored, nops, rt>>

NextRoot ==
    \/ \E r \in 0 .. CHILDS_SIZE : FillSet(r)
    \/ RootDeln

SpecRoot == Init /\ [][NextRoot]_vars

(***************************************************************************)
(* C23: the overflow arena holds at most one overflow table that no live   *)
(* node links (the one deln of the empty prefix strands under the root);   *)
(* every other overflow table is linked from exactly one live node.        *)
(***************************************************************************)
C23_AtMostOneStranded ==
    /\ Cardinality(Unlinked(Tree)) <= 1
    /\ \A h \in SlabKeys(child_list) : Cardinality(OverflowOwners(Tree, h)) <= 1

(***************************************************************************)
(* A node with a compression and more children than its primary region     *)
(* holds, split, merged and destroyed.                                     *)
(*                                                                         *)
(* The three-byte keys FirstRadix.FirstRadix.r are set in increasing order *)
(* of r, one more than the primary region holds, and deleted in decreasing *)
(* order: their common parent has the one-byte compression FirstRadix.     *)
(* set of the key FirstRadix splits the parent, del of that key merges it  *)
(* again, deln of that prefix destroys it; set and deln are called when    *)
(* all the three-byte keys are stored.  These three calls are the ones     *)
(* counted in nops.                                                        *)
(***************************************************************************)
DeepRadixes == 0 .. CHILDS_SIZE
DeepKey(r) == <<FirstRadix, FirstRadix, r>>
DeepStored == {r \in DeepRadixes : IsSome(get(Tree, DeepKey(r)))}

DeepSet(r) ==
    /\ ~panic
    /\ r \notin DeepStored /\ r = SetMin(DeepRadixes \ DeepStored)
    /\ Install(set(Tree, DeepKey(r), 1))
    /\ last' = [op |-> "set", key |-> DeepKey(r), val |-> 1, ret |-> None]
    /\ UNCHANGED <<stored, nops, rt>>

DeepDel(r) ==
    /\ ~panic
    /\ r \in DeepStored
    /\ r = SetMax(DeepStored)
    /\ LET d == del(Tree, DeepKey(r)) IN
        /\ Install(d.t)
        /\ last' = [op |-> "del", key |-> DeepKey(r), val |-> 0, ret |-> d.ret]
    /\ UNCHANGED <<stored, nops, rt>>

DeepSetA ==
    /\ ~panic
    /\ nops < MaxOps
    /\ DeepStored = DeepRadixes
    /\ get(Tree, KeyA) = None
    /\ Install(set(Tree, KeyA, 1))
    /\ last' = [op |-> "set", key |-> KeyA, val |-> 1, ret |-> None]
    /\ nops' = nops + 1
    /\ UNCHANGED <<stored, rt>>

DeepDelA ==
    /\ ~panic
    /\ nops < MaxOps
    /\ IsSome(get(Tree, KeyA))
    /\ LET d == del(Tree, KeyA) IN
        /\ Install(d.t)
        /\ last' = [op |-> "del", key |-> KeyA, val |-> 0, ret |-> d.ret]
    /\ nops' = nops + 1
    /\ UNCHANGED <<stored, rt>>

DeepDeln ==
    /\ ~panic
    /\ nops < MaxOps
    /\ DeepStored = DeepRadixes
    /\ LET d == deln(Tree, KeyA) IN
        /\ Install(d.t)
        /\ last' = [op |-> "deln", key |-> KeyA, val |-> 0, ret |-> d.ret]
    /\ nops' = nops + 1
    /\ UNCHANGED <<stored, rt>>

NextDeep ==
    \/ \E r \in DeepRadixes : DeepSet(r)
    \/ \E r \in DeepRadixes : DeepDel(r)
    \/ DeepSetA
    \/ DeepDelA
    \/ DeepDeln

SpecDeep == Init /\ [][NextDeep]_vars

(* The live node that links the overflow table h; h has exactly one. *)
OwnerOf(t, h) == CHOOSE i \in OverflowOwners(t, h) : TRUE

(***************************************************************************)
(* C24: once an overflow table is allocated for a node it stays allocated  *)
(* and linked to that same node until the node is destroyed, and it is     *)
(* destroyed with its owner: no step detaches, transfers or frees the      *)
(* table of a node that stays live, and no table outlives the non-root     *)
(* node that owned it.                                                     *)
(***************************************************************************)
C24_TableStaysWithNode ==
    [][\A i \in SlabKeys(map) :
          HasOverflow(get_node(Tree, i)) =>
              LET h == Unwrap(get_next_idx(get_node(Tree, i).childs)) IN
                  /\ i \in SlabKeys(map') =>
                        /\ h \in SlabKeys(child_list')
                        /\ get_next_idx(get_node(TreeNext, i).childs) = Some(h)
                  /\ (i \notin SlabKeys(map') /\ i # root_idx) =>
                        h \notin SlabKeys(child_list')]_vars

(* C24, amended: an allocated overflow table stays allocated and linked to
   exactly one live node, the one that holds the child table it extends.
   The link stays with the same node index, except that a split by set moves
   the child table and its overflow table to the new old-content node, and a
   recompression moves them from the absorbed node to its parent.  A table
   is freed only by deln, in the call that destroys its owner; deln of the
   empty prefix unlinks the table of the root without freeing it. *)
C24_TableFollowsChildTable ==
    [][\A h \in SlabKeys(child_list) :
          OverflowOwners(Tree, h) # {} =>
              LET i == OwnerOf(Tree, h)
                  after == OverflowOwners(TreeNext, h) IN
                  \/ /\ h \in SlabKeys(child_list')
                     /\ Cardinality(after) = 1
                     /\ SlabGet(child_list', h) = SlabGet(child_list, h)
                           \/ OwnerOf(TreeNext, h) = i
                     /\ \/ OwnerOf(TreeNext, h) = i
                        \/ /\ last'.op = "set"
                           /\ OwnerOf(TreeNext, h) \notin SlabKeys(map)
                           /\ i \in SlabKeys(map')
                           /\ OwnerOf(TreeNext, h) \in Range(collect_child_indices(TreeNext, i))
                        \/ /\ last'.op \in {"del", "deln"}
                           /\ i \notin SlabKeys(map')
                           /\ i \in Range(collect_child_indices(Tree, OwnerOf(TreeNext, h)))
                  \/ /\ h \notin SlabKeys(child_list')
                     /\ last'.op = "deln"
                     /\ i \notin SlabKeys(map')
                  \/ /\ h \in SlabKeys(child_list')
                     /\ after = {}
                     /\ i = root_idx
                     /\ last'.op = "deln"
                     /\ last'.key = <<>>]_vars

(* set of the one-byte key has just split a node that has an overflow
   table: the node now holds the value and a single child, and that child,
   the new old-content node, links the table. *)
C24_Witness ==
    /\ last.op = "set"
    /\ last.key = KeyA
    /\ \E i \in NonRootNodes(Tree) :
        /\ IsSome(get_node(Tree, i).val)
        /\ ~HasOverflow(get_node(Tree, i))
        /\ ChildCount(Tree, i) = 1
        /\ HasOverflow(get_node(Tree, collect_child_indices(Tree, i)[1]))

(* The trees del and deln hand to try_recompress for the node N of the
   current tree: the tree as it is, the tree after the value of N was taken
   (del of a key that ends at a node with children), and the tree after a
   leaf child of N was removed (del of a leaf, deln of a subtree). *)
RecompressInputs(N) ==
    {Tree, put_node(Tree, N, [get_node(Tree, N) EXCEPT !.val = None])}
        \cup {remove_child([Tree EXCEPT !.map = SlabRemove(@, e[2])], N, e[1]) :
                e \in {e \in Range(iter_all_children(Tree, N)) :
                          iter_all_children(Tree, e[2]) = <<>>}}

(* The keys get is compared on before and after a recompression. *)
RecompressKeys == ProbeKeys \cup {DeepKey(r) : r \in DeepRadixes}

(***************************************************************************)
(* C25: recompression of a non-root node N changes the tree only when N    *)
(* has no value, exactly one entry (r, c) in its primary region and no     *)
(* overflow; N's compression then becomes the old one followed by r and by *)
(* c's compression, N takes c's value and child table, c's slot is freed,  *)
(* the node count drops by exactly one and get returns what it returned    *)
(* before for every key.                                                   *)
(***************************************************************************)
C25_RecompressionAbsorbs ==
    ~panic =>
        \A N \in NonRootNodes(Tree) : \A P \in RecompressInputs(N) :
            LET node == get_node(P, N)
                R == try_recompress(P, N)
                applies == /\ ~IsSome(node.val)
                           /\ PrimaryCount(node) = 1
                           /\ ~HasOverflow(node) IN
                /\ ~R.panic
                /\ ~applies => R = P
                /\ applies =>
                      LET r == node.childs.radixs[1]
                          c == node.childs.idxs[1]
                          child == get_node(P, c) IN
                          /\ get_node(R, N).compression
                                = node.compression \o <<r>> \o child.compression
                          /\ get_node(R, N).val = child.val
                          /\ get_node(R, N).childs = child.childs
                          /\ SlabKeys(R.map) = SlabKeys(P.map) \ {c}
                          /\ Cardinality(SlabKeys(R.map)) = Cardinality(SlabKeys(P.map)) - 1
                          /\ \A i \in SlabKeys(R.map) \ {N} : get_node(R, i) = get_node(P, i)
                          /\ R.child_list = P.child_list
                          /\ R.root_idx = P.root_idx
                          /\ \A k \in RecompressKeys : get(R, k) = get(P, k)

(* del of the one-byte key has just taken the value of a node whose only
   child had the overflow table, and the recompression absorbed that child:
   one value-less node with the joined compression holds the child table
   and its overflow link. *)
C25_Witness ==
    /\ ~panic
    /\ last.op = "del"
    /\ last.key = KeyA
    /\ IsSome(last.ret)
    /\ \E N \in NonRootNodes(Tree) :
          /\ ~IsSome(get_node(Tree, N).val)
          /\ get_node(Tree, N).compression = <<FirstRadix>>
          /\ HasOverflow(get_node(Tree, N))
          /\ ChildCount(Tree, N) = CHILDS_SIZE + 1

(***************************************************************************)
(* C26: in every reachable state every (radix, index) entry in the primary *)
(* or overflow region of a live node refers to a node that is live in the  *)
(* node arena: no del, deln or recompression leaves an entry that points   *)
(* at a freed slot.                                                        *)
(***************************************************************************)
C26_EntriesLive ==
    ~panic =>
        \A i \in SlabKeys(map) :
            /\ HasOverflow(get_node(Tree, i)) =>
                  Unwrap(get_next_idx(get_node(Tree, i).childs)) \in SlabKeys(child_list)
            /\ \A k \in 1 .. Len(iter_all_children(Tree, i)) :
                  iter_all_children(Tree, i)[k][2] \in SlabKeys(map)

(* del has just removed the leaf whose entry was in the overflow region of
   its parent: the parent keeps the overflow table and its other entries. *)
C26_Witness ==
    /\ ~panic
    /\ last.op = "del"
    /\ last.key = DeepKey(CHILDS_SIZE)
    /\ IsSome(last.ret)
    /\ \E N \in NonRootNodes(Tree) :
          /\ HasOverflow(get_node(Tree, N))
          /\ ChildCount(Tree, N) = CHILDS_SIZE

(* The indices free_subtree_iterative pops from its stack, in order, the
   ones it skips because the slot is vacant included. *)
RECURSIVE free_subtree_pops(_, _)
free_subtree_pops(t, stack) ==
    IF stack = <<>> \/ t.panic THEN <<>>
    ELSE
    LET node_idx == stack[Len(stack)]
        rest == SubSeq(stack, 1, Len(stack) - 1)
        n == try_get_node(t, node_idx) IN
    IF ~IsSome(n) THEN <<node_idx>> \o free_subtree_pops(t, rest)
    ELSE
    LET node == Unwrap(n)
        children == collect_child_indices(t, node_idx)
        huge_child_idx == get_next_idx(node.childs)
        t1 == IF ~IsSome(huge_child_idx) THEN t
              ELSE IF ~SlabContains(t.child_list, Unwrap(huge_child_idx)) THEN Panicked(t)
              ELSE [t EXCEPT !.child_list = SlabRemove(@, Unwrap(huge_child_idx))]
        t2 == IF t1.panic THEN t1 ELSE [t1 EXCEPT !.map = SlabRemove(@, node_idx)] IN
    <<node_idx>> \o free_subtree_pops(t2, rest \o children)

(* The stacks deln starts the freeing with: the matched node, or the
   children of the root for the empty prefix. *)
FreeStacks ==
    {<<i>> : i \in NonRootNodes(Tree)} \cup {collect_child_indices(Tree, root_idx)}

(* The overflow tables linked by the nodes in S. *)
TablesOf(t, S) ==
    {Unwrap(get_next_idx(get_node(t, i).childs)) :
        i \in {j \in S : HasOverflow(get_node(t, j))}}

(***************************************************************************)
(* C27: the subtree freeing of deln terminates and removes every node of   *)
(* the matched subtree exactly once, each with its overflow table, and     *)
(* nothing else; the count it returns is the number of removed nodes that  *)
(* held a value.                                                           *)
(***************************************************************************)
C27_FreesSubtreeOnce ==
    ~panic =>
        \A stack \in FreeStacks :
            LET Sub == ReachFrom(Tree, Range(stack), Range(stack))
                F == free_subtree_iterative(Tree, stack, 0)
                pops == free_subtree_pops(Tree, stack) IN
                /\ ~F.t.panic
                /\ NoDuplicates(pops)
                /\ Range(pops) = Sub
                /\ SlabKeys(F.t.map) = SlabKeys(map) \ Sub
                /\ SlabKeys(F.t.child_list) = SlabKeys(child_list) \ TablesOf(Tree, Sub)
                /\ \A i \in SlabKeys(F.t.map) : get_node(F.t, i) = get_node(Tree, i)
                /\ \A h \in SlabKeys(F.t.child_list) :
                      SlabGet(F.t.child_list, h) = SlabGet(child_list, h)
                /\ F.ret = Cardinality({i \in Sub : IsSome(get_node(Tree, i).val)})

(* deln of the one-byte prefix has just freed the node that holds the value
   of that key, its child with the overflow table and all the leaves: the
   root is the only node left and no overflow table is allocated. *)
C27_Witness ==
    /\ ~panic
    /\ last.op = "deln"
    /\ last.key = KeyA
    /\ last.ret = CHILDS_SIZE + 2
    /\ SlabKeys(map) = {root_idx}
    /\ SlabKeys(child_list) = {}

(***************************************************************************)
(* The cursor of the descent loops.                                        *)
(*                                                                         *)
(* Each operator follows the loop of one public call and returns the       *)
(* values the cursor has when key[cursor] is read, in order.  A read at or *)
(* after the end of the key, which panics in the code, ends the sequence   *)
(* with that value.                                                        *)
(***************************************************************************)
(* get_cursors_loop that steps over one byte more than the compression. *)
RECURSIVE get_cursors_loop_skips_byte(_, _, _, _)
get_cursors_loop_skips_byte(t, key, idx, cursor) ==
    IF cursor >= Len(key) THEN <<cursor>>
    ELSE
    LET f == find(t, idx, At(key, cursor)) IN
    IF ~IsSome(f) THEN <<cursor>>
    ELSE LET n == try_get_node(t, Unwrap(f)) IN
         IF ~IsSome(n) THEN <<cursor>>
         ELSE LET node == Unwrap(n)
                  c == compare_compression_key(node.compression, SliceFrom(key, cursor + 1)) IN
              IF c.tag = "Path"
              THEN <<cursor>> \o get_cursors_loop_skips_byte(t, key, Unwrap(f),
                                                     cursor + 2 + Len(node.compression))
              ELSE <<cursor>>

RECURSIVE get_cursors_loop(_, _, _, _)
get_cursors_loop(t, key, idx, cursor) ==
    IF cursor >= Len(key) THEN <<cursor>>
    ELSE
    LET f == find(t, idx, At(key, cursor)) IN
    IF ~IsSome(f) THEN <<cursor>>
    ELSE LET n == try_get_node(t, Unwrap(f)) IN
         IF ~IsSome(n) THEN <<cursor>>
         ELSE LET node == Unwrap(n)
                  c == compare_compression_key(node.compression, SliceFrom(key, cursor + 1)) IN
              IF c.tag = "Path"
              THEN <<cursor>> \o get_cursors_loop(t, key, Unwrap(f),
                                                  cursor + 1 + Len(node.compression))
              ELSE <<cursor>>

get_cursors(t, key) ==
    IF Len(key) = 0 THEN <<>> ELSE get_cursors_loop(t, key, t.root_idx, 0)

RECURSIVE set_cursors_loop(_, _, _, _)
set_cursors_loop(t, key, idx, cursor) ==
    IF cursor >= Len(key) THEN <<cursor>>
    ELSE
    LET f == find(t, idx, At(key, cursor)) IN
    IF ~IsSome(f) THEN <<cursor>>
    ELSE LET child_idx == Unwrap(f) IN
         IF ~HasNode(t, child_idx) THEN <<cursor>>
         ELSE LET node == get_node(t, child_idx)
                  c == compare_compression_key(node.compression, SliceFrom(key, cursor + 1)) IN
              IF c.tag = "Path"
              THEN <<cursor>> \o set_cursors_loop(t, key, child_idx,
                                                  cursor + 1 + Len(node.compression))
              ELSE <<cursor>>

set_cursors(t, key) ==
    IF Len(key) = 0 THEN <<>> ELSE set_cursors_loop(t, key, t.root_idx, 0)

RECURSIVE getn_cursors_loop(_, _, _, _)
getn_cursors_loop(t, prefix, idx, cursor) ==
    IF cursor >= Len(prefix) THEN <<cursor>>
    ELSE
    LET radix == At(prefix, cursor)
        f == find(t, idx, radix) IN
    IF ~IsSome(f) THEN <<cursor>>
    ELSE LET n == try_get_node(t, Unwrap(f)) IN
         IF ~IsSome(n) THEN <<cursor>>
         ELSE LET node == Unwrap(n)
                  cursor1 == cursor + 1
                  c == compare_compression_key(node.compression, SliceFrom(prefix, cursor1)) IN
              IF c.tag = "Path"
              THEN <<cursor>> \o getn_cursors_loop(t, prefix, Unwrap(f),
                                                   cursor1 + Len(node.compression))
              ELSE <<cursor>>

getn_cursors(t, prefix) ==
    IF Len(prefix) = 0 THEN <<>> ELSE getn_cursors_loop(t, prefix, t.root_idx, 0)

(* The loop of del: the key is compared from cursor on, and after a Path
   outcome key[cursor] is read behind the compression. *)
RECURSIVE del_cursors_loop(_, _, _, _)
del_cursors_loop(t, key, idx, cursor) ==
    LET n == try_get_node(t, idx) IN
    IF ~IsSome(n) THEN <<>>
    ELSE LET node == Unwrap(n)
             c == compare_compression_key(node.compression, SliceFrom(key, cursor)) IN
         IF c.tag # "Path" THEN <<>>
         ELSE LET cursor2 == cursor + Len(node.compression) IN
              IF cursor2 >= Len(key) THEN <<cursor2>>
              ELSE LET f == find(t, idx, At(key, cursor2)) IN
                   IF ~IsSome(f) THEN <<cursor2>>
                   ELSE <<cursor2>> \o del_cursors_loop(t, key, Unwrap(f), cursor2 + 1)

del_cursors(t, key) ==
    IF Len(key) = 0 THEN <<>>
    ELSE LET f == find(t, t.root_idx, At(key, 0)) IN
         IF ~IsSome(f) THEN <<0>>
         ELSE <<0>> \o del_cursors_loop(t, key, Unwrap(f), 1)

(* The loop of deln: as in del, and a Partial outcome ends the descent. *)
RECURSIVE deln_cursors_loop(_, _, _, _)
deln_cursors_loop(t, prefix, idx, cursor) ==
    LET n == try_get_node(t, idx) IN
    IF ~IsSome(n) THEN <<>>
    ELSE LET node == Unwrap(n)
             c == compare_compression_key(node.compression, SliceFrom(prefix, cursor)) IN
         IF c.tag # "Path" THEN <<>>
         ELSE LET cursor2 == cursor + Len(node.compression) IN
              IF cursor2 >= Len(prefix) THEN <<cursor2>>
              ELSE LET f == find(t, idx, At(prefix, cursor2)) IN
                   IF ~IsSome(f) THEN <<cursor2>>
                   ELSE <<cursor2>> \o deln_cursors_loop(t, prefix, Unwrap(f), cursor2 + 1)

deln_cursors(t, prefix) ==
    IF Len(prefix) = 0 THEN <<>>
    ELSE LET f == find(t, t.root_idx, At(prefix, 0)) IN
         IF ~IsSome(f) THEN <<0>>
         ELSE <<0>> \o deln_cursors_loop(t, prefix, Unwrap(f), 1)

(* Every read is inside the key and behind the read before it. *)
CursorsInKey(cursors, key) ==
    /\ \A i \in 1 .. Len(cursors) : cursors[i] >= 0 /\ cursors[i] < Len(key)
    /\ \A i \in 1 .. (Len(cursors) - 1) : cursors[i] < cursors[i + 1]

(***************************************************************************)
(* C28: every get, set, del, getn and deln call on a finite key            *)
(* terminates: in the descent loop the cursor strictly increases on every  *)
(* iteration and never exceeds the key length, and key[cursor] is read     *)
(* only while the cursor is less than the key length, so after a Path      *)
(* outcome at least one byte of the key remains.                           *)
(***************************************************************************)
C28_CursorAdvancesInsideKey ==
    ~panic =>
        \A key \in RecompressKeys :
            /\ CursorsInKey(get_cursors(Tree, key), key)
            /\ CursorsInKey(set_cursors(Tree, key), key)
            /\ CursorsInKey(del_cursors(Tree, key), key)
            /\ CursorsInKey(getn_cursors(Tree, key), key)
            /\ CursorsInKey(deln_cursors(Tree, key), key)

(* del has just removed a three-byte key below the node with the one-byte
   compression: the descent read the key at 0, stepped over the radix and,
   after the Path outcome, over the compression, and read the key at 2,
   where get and del on that key read it now. *)
C28_Witness ==
    /\ ~panic
    /\ last.op = "del"
    /\ Len(last.key) = 3
    /\ IsSome(last.ret)
    /\ get_cursors(Tree, last.key) = <<0, 2>>
    /\ del_cursors(Tree, last.key) = <<0, 2>>

(***************************************************************************)
(* C29: after every public operation, for any node with two or more        *)
(* children the outgoing radixes are pairwise distinct and none of them    *)
(* equals the byte at position 0 of that node's own compression.           *)
(***************************************************************************)
C29_RadixesDistinctAndNotCompressionHead ==
    \A i \in SlabKeys(map) :
        ChildCount(Tree, i) >= 2 =>
            LET rs == ChildRadixes(Tree, i)
                compression == get_node(Tree, i).compression IN
                /\ \A j, k \in 1 .. Len(rs) : j # k => rs[j] # rs[k]
                /\ compression # <<>> =>
                      \A j \in 1 .. Len(rs) : rs[j] # compression[1]

(* C29, amended: after every public operation, for any node with two or
   more children the outgoing radixes are pairwise distinct, so that find
   leads from each radix to the child entered under it; a radix may equal
   the first byte of the node's own compression. *)
C29_RadixesDistinct ==
    ~panic =>
        \A i \in SlabKeys(map) :
            ChildCount(Tree, i) >= 2 =>
                LET cs == iter_all_children(Tree, i) IN
                    /\ \A j, k \in 1 .. Len(cs) : j # k => cs[j][1] # cs[k][1]
                    /\ \A j \in 1 .. Len(cs) : find(Tree, i, cs[j][1]) = Some(cs[j][2])

(* set has just left a node with two children whose compression starts
   with the radix of one of them. *)
C29_Witness ==
    /\ ~panic
    /\ last.op = "set"
    /\ \E i \in NonRootNodes(Tree) :
          /\ ChildCount(Tree, i) >= 2
          /\ get_node(Tree, i).compression # <<>>
          /\ get_node(Tree, i).compression[1] \in Range(ChildRadixes(Tree, i))

(***************************************************************************)
(* The ticker of the monoio integration.                                   *)
(*                                                                         *)
(* One thread runs two tasks cooperatively: the caller of                  *)
(* shared_with_ticker, which afterwards calls set on the shared tree and   *)
(* sleeps, and the ticker task.  rt.running names the task that runs; a    *)
(* task runs from its resumption to its next await and no other task runs  *)
(* in between.  rt.borrow is the set of tasks that hold a RefMut of the    *)
(* RefCell; borrow_mut panics when the cell is already borrowed.  A        *)
(* statement art.borrow_mut().f() is three steps: the borrow, the call,    *)
(* and the drop of the temporary RefMut at the end of the statement.       *)
(* rt.clock is the time, rt.now the timestamp tick stores.                 *)
(***************************************************************************)
MaxClock == 6
(* The interval of the ticker and the length of the caller's sleep, in
   clock units. *)
Interval == 2
Nap == 1
TickerKeys == {KeyA, KeyAA}

(* RefCell::borrow_mut by the task who. *)
BorrowMut(who) ==
    IF rt.borrow # {}
    THEN /\ panic' = TRUE
         /\ UNCHANGED rt
    ELSE /\ panic' = panic
         /\ rt' = [rt EXCEPT !.borrow = {who},
                             !.main = IF who = "main"
                                      THEN (IF rt.main = "init_borrow" THEN "init_tick" ELSE "call")
                                      ELSE @,
                             !.ticker = IF who = "ticker" THEN "tick" ELSE @]

(* shared_with_ticker: art.borrow_mut().tick(), the initial tick. *)
MainInitBorrow ==
    /\ ~panic
    /\ rt.running = "main" /\ rt.main = "init_borrow"
    /\ BorrowMut("main")
    /\ UNCHANGED <<map, child_list, root_idx, last, stored, nops>>

MainInitTick ==
    /\ ~panic
    /\ rt.running = "main" /\ rt.main = "init_tick"
    /\ rt' = [rt EXCEPT !.now = rt.clock, !.main = "init_release"]
    /\ UNCHANGED <<map, child_list, root_idx, panic, last, stored, nops>>

MainInitRelease ==
    /\ ~panic
    /\ rt.running = "main" /\ rt.main = "init_release"
    /\ rt' = [rt EXCEPT !.borrow = @ \ {"main"}, !.main = "spawn"]
    /\ UNCHANGED <<map, child_list, root_idx, panic, last, stored, nops>>

(* shared_with_ticker: spawn_ticker(art.clone(), interval) queues the task;
   it is not polled before the caller awaits. *)
MainSpawn ==
    /\ ~panic
    /\ rt.running = "main" /\ rt.main = "spawn"
    /\ rt' = [rt EXCEPT !.ticker = "spawned", !.main = "ready"]
    /\ UNCHANGED <<map, child_list, root_idx, panic, last, stored, nops>>

(* The caller: art.borrow_mut().set(key, value). *)
MainBorrow ==
    /\ ~panic
    /\ nops < MaxOps
    /\ rt.running = "main" /\ rt.main = "ready"
    /\ BorrowMut("main")
    /\ UNCHANGED <<map, child_list, root_idx, last, stored, nops>>

MainSet(k) ==
    /\ ~panic
    /\ rt.running = "main" /\ rt.main = "call"
    /\ Install(set(Tree, k, 1))
    /\ last' = [op |-> "set", key |-> k, val |-> 1, ret |-> None]
    /\ stored' = [stored EXCEPT ![k] = Some(1)]
    /\ nops' = nops + 1
    /\ rt' = [rt EXCEPT !.main = "release"]

MainRelease ==
    /\ ~panic
    /\ rt.running = "main" /\ rt.main = "release"
    /\ rt' = [rt EXCEPT !.borrow = @ \ {"main"}, !.main = "ready"]
    /\ UNCHANGED <<map, child_list, root_idx, panic, last, stored, nops>>

(* The caller: monoio::time::sleep(d).await. *)
MainSleep ==
    /\ ~panic
    /\ rt.running = "main" /\ rt.main = "ready"
    /\ rt' = [rt EXCEPT !.main = "sleep", !.wake_main = rt.clock + Nap, !.running = "idle"]
    /\ UNCHANGED <<map, child_list, root_idx, panic, last, stored, nops>>

MainWake ==
    /\ ~panic
    /\ rt.running = "idle" /\ rt.main = "sleep"
    /\ rt.clock >= rt.wake_main
    /\ rt' = [rt EXCEPT !.main = "ready", !.running = "main"]
    /\ UNCHANGED <<map, child_list, root_idx, panic, last, stored, nops>>

(* The first poll of the spawned task: it enters the loop. *)
TickerPoll ==
    /\ ~panic
    /\ rt.running = "idle" /\ rt.ticker = "spawned"
    /\ rt' = [rt EXCEPT !.ticker = "loop", !.running = "ticker"]
    /\ UNCHANGED <<map, child_list, root_idx, panic, last, stored, nops>>

(* spawn_ticker: monoio::time::sleep(interval).await suspends the task. *)
TickerSleep ==
    /\ ~panic
    /\ rt.running = "ticker" /\ rt.ticker = "loop"
    /\ rt' = [rt EXCEPT !.ticker = "sleep", !.wake_ticker = rt.clock + Interval,
                        !.running = "idle"]
    /\ UNCHANGED <<map, child_list, root_idx, panic, last, stored, nops>>

(* The sleep has completed and the runtime resumes the task. *)
TickerWake ==
    /\ ~panic
    /\ rt.running = "idle" /\ rt.ticker = "sleep"
    /\ rt.clock >= rt.wake_ticker
    /\ rt' = [rt EXCEPT !.ticker = "woken", !.running = "ticker"]
    /\ UNCHANGED <<map, child_list, root_idx, panic, last, stored, nops>>

(* spawn_ticker: art.borrow_mut().tick(). *)
TickerBorrow ==
    /\ ~panic
    /\ rt.running = "ticker" /\ rt.ticker = "woken"
    /\ BorrowMut("ticker")
    /\ UNCHANGED <<map, child_list, root_idx, last, stored, nops>>

TickerTick ==
    /\ ~panic
    /\ rt.running = "ticker" /\ rt.ticker = "tick"
    /\ rt' = [rt EXCEPT !.now = rt.clock, !.ticker = "release"]
    /\ UNCHANGED <<map, child_list, root_idx, panic, last, stored, nops>>

(* A ticker that keeps its RefMut for the next iteration. *)
TickerReleaseKeepsBorrow ==
    /\ ~panic
    /\ rt.running = "ticker" /\ rt.ticker = "release"
    /\ rt' = [rt EXCEPT !.ticker = "loop"]
    /\ UNCHANGED <<map, child_list, root_idx, panic, last, stored, nops>>

TickerRelease ==
    /\ ~panic
    /\ rt.running = "ticker" /\ rt.ticker = "release"
    /\ rt' = [rt EXCEPT !.borrow = @ \ {"ticker"}, !.ticker = "loop"]
    /\ UNCHANGED <<map, child_list, root_idx, panic, last, stored, nops>>

(* Time passes. *)
ClockAdvance ==
    /\ ~panic
    /\ rt.clock < MaxClock
    /\ rt' = [rt EXCEPT !.clock = @ + 1]
    /\ UNCHANGED <<map, child_list, root_idx, panic, last, stored, nops>>

NextTicker ==
    \/ MainInitBorrow
    \/ MainInitTick
    \/ MainInitRelease
    \/ MainSpawn
    \/ MainBorrow
    \/ \E k \in TickerKeys : MainSet(k)
    \/ MainRelease
    \/ MainSleep
    \/ MainWake
    \/ TickerPoll
    \/ TickerSleep
    \/ TickerWake
    \/ TickerBorrow
    \/ TickerTick
    \/ TickerRelease
    \/ ClockAdvance

SpecTicker == Init /\ [][NextTicker]_vars

(***************************************************************************)
(* C30: the ticker task takes the mutable borrow of the shared tree only   *)
(* after its sleep has completed and releases it before its next           *)
(* suspension point, never holding it across an await; with tasks that     *)
(* take and release their borrow within one step that does not suspend,    *)
(* two borrows of the tree are never active at once; and                   *)
(* shared_with_ticker performs its initial tick before the ticker task is  *)
(* spawned.                                                                *)
(***************************************************************************)
C30_BorrowNeverHeldAcrossAwait ==
    /\ ~panic
    /\ Cardinality(rt.borrow) <= 1
    /\ "ticker" \in rt.borrow =>
          /\ rt.running = "ticker"
          /\ rt.ticker \in {"tick", "release"}
          /\ rt.clock >= rt.wake_ticker
    /\ rt.ticker \in {"unspawned", "spawned", "loop", "sleep", "woken"} =>
          "ticker" \notin rt.borrow
    /\ rt.running # "main" => "main" \notin rt.borrow
    /\ rt.ticker # "unspawned" =>
          /\ rt.now >= 1
          /\ rt.main \notin {"init_borrow", "init_tick", "init_release", "spawn"}

(* The caller has called set and sleeps; the ticker, resumed after its
   sleep, holds the borrow and has stored the current time. *)
C30_Witness ==
    /\ ~panic
    /\ nops >= 1
    /\ rt.main = "sleep"
    /\ rt.running = "ticker"
    /\ rt.ticker = "release"
    /\ rt.borrow = {"ticker"}
    /\ rt.now = rt.clock
    /\ rt.now > 1

====
